---- MODULE Spec2Model ----
(***************************************************************************)
(* Model of the graft patch toolkit: manifest, path-restriction policy,    *)
(* validation, backup / rollback and the transactional apply driver, as    *)
(* driven by `graft patch apply` and by PatchRunner (graft-gui); the       *)
(* patcher's window and headless runs (SpecUi), rollback over any backup   *)
(* directory (SpecRollback), the exit codes of the `graft` command line    *)
(* (SpecCli), the archive of a patch directory (SpecArchive), the          *)
(* self-appending executable (SpecEnvelope), the patch creator on          *)
(* directories as they are on disk (SpecScan), the binary delta            *)
(* (SpecDelta), the validation routines as calls (SpecValidate), one       *)
(* invocation of apply under every fault (SpecPhases), sequences of apply  *)
(* and rollback calls under every fault (SpecSequence), patch::rollback    *)
(* called on its own (SpecInverse) and the window under a fair scheduler   *)
(* (SpecUiLive).                                                           *)
(*                                                                         *)
(* File contents are abstract byte strings; a path is the sequence of its  *)
(* characters, so the substring and suffix tests of the policy are         *)
(* computed rather than assumed.                                           *)
(***************************************************************************)
EXTENDS Integers, Sequences, FiniteSets, TLC

VARIABLES
    manifest,   \* the loaded Manifest: [version, allow_restricted, entries]
    bundle,     \* the patch directory: [diffs, files]
    origin,     \* how the bundle came to be: created from (orig, new) or given
    fault,      \* the sabotage of the bundle / I/O fault injected in this run
    target_dir, \* absolute path of the target directory (characters)
    target,     \* content of the target directory: existing file -> content
    backup,     \* <target>/.patch-backup: [exists, files]
    pc,         \* position of the in-flight call ("load", "idle", or a phase)
    call,       \* bookkeeping of the in-flight apply
    last,       \* the last completed call and its result
    prev,       \* the call completed before `last`
    ncalls,     \* calls started so far
    gui,        \* the patcher's user interface: GraftApp (gui.rs) or a headless run
    scratch,    \* number of scratch unpack directories that exist
    cli,        \* an invocation of the `graft` command line: command, inputs, exit code
    archive,    \* an archive round trip: the packed members and the unpacked directory
    exe,        \* a patcher executable on disk and the result of reading its appended data
    scan,       \* a run of the patch creator: the two directories, the scan, the output
    delta,      \* a delta computed from two byte sequences and applied to a base
    check       \* the last call of a validation routine: its result and the directories before it

corevars == <<manifest, bundle, origin, fault, target_dir, target, backup, pc, call, last, prev, ncalls>>

toolvars == <<exe, scan, delta, check>>

uivars == <<gui, scratch, cli, archive, toolvars>>

vars == <<manifest, bundle, origin, fault, target_dir, target, backup, pc, call, last, prev, ncalls,
          gui, scratch, cli, archive, exe, scan, delta, check>>

---------------------------------------------------------------------------
(* Bounds of the model *)

MaxEntries == 2
MaxCalls == 3
MaxPathLen == 3

---------------------------------------------------------------------------
(* Generic helpers on sequences *)

Range(s) == { s[i] : i \in 1..Len(s) }

SeqsUpTo(S, n) == UNION { [1..k -> S] : k \in 0..n }

StartsWith(s, p) ==
    /\ Len(p) <= Len(s)
    /\ SubSeq(s, 1, Len(p)) = p

EndsWith(s, p) ==
    /\ Len(p) <= Len(s)
    /\ SubSeq(s, Len(s) - Len(p) + 1, Len(s)) = p

Contains(s, p) ==
    \E i \in 1..(Len(s) - Len(p) + 1) : SubSeq(s, i, i + Len(p) - 1) = p


---------------------------------------------------------------------------
(* Directories: a directory is the function from the names of the files   *)
(* that exist in it to their content.                                      *)

EmptyDir == [f \in {} |-> f]

Exists(dir, f) == f \in DOMAIN dir

WriteFile(dir, f, c) ==
    [g \in (DOMAIN dir) \cup {f} |-> IF g = f THEN c ELSE dir[g]]

RemoveFile(dir, f) == [g \in (DOMAIN dir) \ {f} |-> dir[g]]

---------------------------------------------------------------------------
(* utils/hash.rs: SHA-256 hex digest, collision free at this scale.        *)

hash_bytes(data) == <<"sha256", data>>

---------------------------------------------------------------------------
(* path_restrictions.rs (linux build)                                      *)

ParentDir == <<".", ".">>

\* Path::components(): the path split at '/', empty and "." segments dropped
RECURSIVE Segments(_)
Segments(file) ==
    IF \E i \in 1..Len(file) : file[i] = "/"
    THEN LET i == CHOOSE k \in 1..Len(file) :
                     /\ file[k] = "/"
                     /\ \A j \in 1..(k - 1) : file[j] # "/"
         IN  <<SubSeq(file, 1, i - 1)>> \o Segments(SubSeq(file, i + 1, Len(file)))
    ELSE <<file>>

Components(file) == SelectSeq(Segments(file), LAMBDA c : c # << >> /\ c # <<".">>)

ToLowerChar(ch) ==
    CASE ch = "H" -> "h"
      [] ch = "S" -> "s"
      [] OTHER -> ch

to_lowercase(file) == [i \in 1..Len(file) |-> ToLowerChar(file[i])]

BLOCKED_EXTENSIONS_CROSS_PLATFORM == << <<".", "s", "h">>, <<".", "b", "i", "n">> >>

BLOCKED_EXTENSIONS_LINUX == << <<".", "s", "o">>, <<".", "k", "o">> >>

NoViolation == [kind |-> "none", path |-> << >>]

check_path_traversal_components_only(file) ==
    IF \E i \in 1..Len(Components(file)) : Components(file)[i] = ParentDir
    THEN [kind |-> "PathTraversal", path |-> file]
    ELSE NoViolation

check_path_traversal(file) ==
    IF \E i \in 1..Len(Components(file)) : Components(file)[i] = ParentDir
    THEN [kind |-> "PathTraversal", path |-> file]
    ELSE IF Contains(file, ParentDir)
    THEN [kind |-> "PathTraversal", path |-> file]
    ELSE NoViolation

check_blocked_extension(file) ==
    LET exts == BLOCKED_EXTENSIONS_CROSS_PLATFORM \o BLOCKED_EXTENSIONS_LINUX
    IN  IF \E i \in 1..Len(exts) : EndsWith(to_lowercase(file), exts[i])
        THEN [kind |-> "BlockedExtension", path |-> file]
        ELSE NoViolation

\* Path::join: an absolute `file` replaces the base
JoinPath(dir, file) ==
    IF Len(file) > 0 /\ file[1] = "/" THEN file ELSE dir \o <<"/">> \o file

P_usr == <<"/", "u", "s", "r">>
P_usr_local == <<"/", "u", "s", "r", "/", "l", "o", "c", "a", "l">>
P_var == <<"/", "v", "a", "r">>
P_var_games == <<"/", "v", "a", "r", "/", "g", "a", "m", "e", "s">>

ProtectedPrefixes ==
    << P_usr, <<"/", "b", "i", "n">>, <<"/", "s", "b", "i", "n">>,
       <<"/", "l", "i", "b">>, <<"/", "l", "i", "b", "6", "4">>,
       <<"/", "e", "t", "c">>, P_var, <<"/", "b", "o", "o", "t">>,
       <<"/", "o", "p", "t">> >>

is_protected_path(path) ==
    \E i \in 1..Len(ProtectedPrefixes) :
        LET prefix == ProtectedPrefixes[i] IN
        /\ StartsWith(path, prefix)
        /\ ~(prefix = P_usr /\ StartsWith(path, P_usr_local))
        /\ ~(prefix = P_var /\ StartsWith(path, P_var_games))

\* canonicalize() resolves symbolic links, of which the model has none: the
\* resolved path is the joined path (the fallback of the code)
check_protected_path(file, tdir) ==
    IF is_protected_path(JoinPath(tdir, file))
    THEN [kind |-> "ProtectedPath", path |-> file]
    ELSE NoViolation

check_path(file, tdir) ==
    IF check_path_traversal(file) # NoViolation THEN check_path_traversal(file)
    ELSE IF check_blocked_extension(file) # NoViolation THEN check_blocked_extension(file)
    ELSE check_protected_path(file, tdir)

RECURSIVE CollectViolations(_, _)
CollectViolations(entries, tdir) ==
    IF entries = << >> THEN << >>
    ELSE LET v == check_path(Head(entries).file, tdir)
         IN  (IF v # NoViolation THEN <<v>> ELSE << >>)
                 \o CollectViolations(Tail(entries), tdir)

check_manifest_no_bypass(m, tdir) == CollectViolations(m.entries, tdir)

\* Ok(()) is the empty list of violations
check_manifest(m, tdir) ==
    IF m.allow_restricted THEN << >>
    ELSE CollectViolations(m.entries, tdir)


---------------------------------------------------------------------------
(* utils/manifest.rs                                                       *)

NoHash == "-"

PatchEntry(f, o, d, n) ==
    [op |-> "patch", file |-> f, original_hash |-> o, diff_hash |-> d, final_hash |-> n]

AddEntry(f, n) ==
    [op |-> "add", file |-> f, original_hash |-> NoHash, diff_hash |-> NoHash, final_hash |-> n]

DeleteEntry(f, o) ==
    [op |-> "delete", file |-> f, original_hash |-> o, diff_hash |-> NoHash, final_hash |-> NoHash]

\* version is 1 unless `patch create --version` or the author of the manifest says otherwise
Manifest(allow, entries) == [version |-> 1, allow_restricted |-> allow, entries |-> entries]

---------------------------------------------------------------------------
(* patch/error.rs: a result is Ok or a PatchError kind with the file named *)

Ok == [kind |-> "Ok", file |-> << >>]

Err(kind, f) == [kind |-> kind, file |-> f]

---------------------------------------------------------------------------
(* patch/validate.rs                                                       *)

validate_path_restrictions_skipped(m, tdir) == Ok

validate_path_restrictions(m, tdir) ==
    IF check_manifest(m, tdir) = << >> THEN Ok ELSE Err("RestrictedPaths", << >>)

validate_entry_pre_delete_needs_file(e, tgt) ==
    CASE e.op = "patch" ->
            IF ~Exists(tgt, e.file) THEN Err("ValidationFailed", e.file)
            ELSE IF hash_bytes(tgt[e.file]) # e.original_hash
                 THEN Err("ValidationFailed", e.file)
                 ELSE Ok
      [] e.op = "add" ->
            IF Exists(tgt, e.file) THEN Err("ValidationFailed", e.file) ELSE Ok
      [] e.op = "delete" ->
            IF ~Exists(tgt, e.file) THEN Err("ValidationFailed", e.file)
            ELSE IF hash_bytes(tgt[e.file]) # e.original_hash
                 THEN Err("ValidationFailed", e.file)
                 ELSE Ok

validate_entry_pre_add_unchecked(e, tgt) ==
    CASE e.op = "patch" ->
            IF ~Exists(tgt, e.file) THEN Err("ValidationFailed", e.file)
            ELSE IF hash_bytes(tgt[e.file]) # e.original_hash
                 THEN Err("ValidationFailed", e.file)
                 ELSE Ok
      [] e.op = "add" -> Ok
      [] e.op = "delete" ->
            IF Exists(tgt, e.file) /\ hash_bytes(tgt[e.file]) # e.original_hash
            THEN Err("ValidationFailed", e.file)
            ELSE Ok

\* the check of one entry of validate_entries
validate_entry_pre(e, tgt) ==
    CASE e.op = "patch" ->
            IF ~Exists(tgt, e.file) THEN Err("ValidationFailed", e.file)
            ELSE IF hash_bytes(tgt[e.file]) # e.original_hash
                 THEN Err("ValidationFailed", e.file)
                 ELSE Ok
      [] e.op = "add" ->
            IF Exists(tgt, e.file) THEN Err("ValidationFailed", e.file) ELSE Ok
      [] e.op = "delete" ->
            IF Exists(tgt, e.file) /\ hash_bytes(tgt[e.file]) # e.original_hash
            THEN Err("ValidationFailed", e.file)
            ELSE Ok

validate_entries_passes(entries, tgt) == Ok

RECURSIVE validate_entries(_, _)
validate_entries(entries, tgt) ==
    IF entries = << >> THEN Ok
    ELSE IF validate_entry_pre(Head(entries), tgt) # Ok
         THEN validate_entry_pre(Head(entries), tgt)
         ELSE validate_entries(Tail(entries), tgt)

\* the check of one entry of validate_backup, on the files of the backup directory
validate_entry_backup_unchecked(e, bfiles) == Ok

validate_entry_backup(e, bfiles) ==
    CASE e.op = "patch" ->
            IF ~Exists(bfiles, e.file) THEN Err("RollbackFailed", e.file)
            ELSE IF hash_bytes(bfiles[e.file]) # e.original_hash
                 THEN Err("RollbackFailed", e.file)
                 ELSE Ok
      [] e.op = "delete" ->
            IF Exists(bfiles, e.file) /\ hash_bytes(bfiles[e.file]) # e.original_hash
            THEN Err("RollbackFailed", e.file)
            ELSE Ok
      [] e.op = "add" -> Ok

RECURSIVE validate_backup(_, _)
validate_backup(entries, bfiles) ==
    IF entries = << >> THEN Ok
    ELSE IF validate_entry_backup(Head(entries), bfiles) # Ok
         THEN validate_entry_backup(Head(entries), bfiles)
         ELSE validate_backup(Tail(entries), bfiles)

verify_entry_skipped(e, tgt) == Ok

\* patch/verify.rs: the post-condition of one entry
verify_entry(e, tgt) ==
    CASE e.op \in {"patch", "add"} ->
            IF ~Exists(tgt, e.file) THEN Err("VerificationFailed", e.file)
            ELSE IF hash_bytes(tgt[e.file]) # e.final_hash
                 THEN Err("VerificationFailed", e.file)
                 ELSE Ok
      [] e.op = "delete" ->
            IF Exists(tgt, e.file) THEN Err("VerificationFailed", e.file) ELSE Ok

validate_patched_entries_skipped(entries, tgt) == Ok

RECURSIVE validate_patched_entries(_, _)
validate_patched_entries(entries, tgt) ==
    IF entries = << >> THEN Ok
    ELSE IF verify_entry(Head(entries), tgt) # Ok
         THEN verify_entry(Head(entries), tgt)
         ELSE validate_patched_entries(Tail(entries), tgt)

---------------------------------------------------------------------------
(* utils/file_ops.rs and patch/backup.rs                                   *)

\* copy the target file into backup_dir/<file>, creating the directory
backup_file(f, tgt, bk) ==
    [exists |-> TRUE, files |-> WriteFile(bk.files, f, tgt[f])]

\* copy backup_dir/<file> over the target file; fails when there is no copy
restore_file(f, tgt, bk) ==
    IF Exists(bk.files, f)
    THEN [res |-> Ok, target |-> WriteFile(tgt, f, bk.files[f])]
    ELSE [res |-> Err("RollbackFailed", f), target |-> tgt]

RECURSIVE backup_entries(_, _, _)
backup_entries(entries, tgt, bk) ==
    IF entries = << >> THEN bk
    ELSE LET e == Head(entries) IN
         IF e.op \in {"patch", "delete"} /\ Exists(tgt, e.file)
         THEN backup_entries(Tail(entries), tgt, backup_file(e.file, tgt, bk))
         ELSE backup_entries(Tail(entries), tgt, bk)

\* restoring or removing the file fails with an I/O error (the `map_err` arms of rollback)
RestoreFails(f) == fault.mode = "rbioerr" /\ fault.file = f

\* the inverse of one applied entry with every effect but the removal of an added file
rollback_entry_keeps_added(e, tgt, bk) ==
    CASE e.op = "patch" ->
            IF RestoreFails(e.file)
            THEN [res |-> Err("RollbackFailed", e.file), target |-> tgt]
            ELSE restore_file(e.file, tgt, bk)
      [] e.op = "delete" ->
            IF Exists(bk.files, e.file)
            THEN IF RestoreFails(e.file)
                 THEN [res |-> Err("RollbackFailed", e.file), target |-> tgt]
                 ELSE restore_file(e.file, tgt, bk)
            ELSE [res |-> Ok, target |-> tgt]
      [] e.op = "add" -> [res |-> Ok, target |-> tgt]

\* the inverse of one applied entry
rollback_entry(e, tgt, bk) ==
    CASE e.op = "patch" ->
            IF RestoreFails(e.file)
            THEN [res |-> Err("RollbackFailed", e.file), target |-> tgt]
            ELSE restore_file(e.file, tgt, bk)
      [] e.op = "delete" ->
            IF Exists(bk.files, e.file)
            THEN IF RestoreFails(e.file)
                 THEN [res |-> Err("RollbackFailed", e.file), target |-> tgt]
                 ELSE restore_file(e.file, tgt, bk)
            ELSE [res |-> Ok, target |-> tgt]
      [] e.op = "add" ->
            IF Exists(tgt, e.file)
            THEN IF RestoreFails(e.file)
                 THEN [res |-> Err("RollbackFailed", e.file), target |-> tgt]
                 ELSE [res |-> Ok, target |-> RemoveFile(tgt, e.file)]
            ELSE [res |-> Ok, target |-> tgt]

rollback_nothing(applied, tgt, bk) == [res |-> Ok, target |-> tgt]

\* a rollback that goes on with the next entries after a failing one
RECURSIVE rollback_continues(_, _, _)
rollback_continues(applied, tgt, bk) ==
    IF applied = << >> THEN [res |-> Ok, target |-> tgt]
    ELSE LET r == rollback_entry(Head(applied), tgt, bk)
             rest == rollback_continues(Tail(applied), r.target, bk) IN
         IF r.res # Ok
         THEN [res |-> Err("RollbackFailed", r.res.file), target |-> rest.target]
         ELSE rest

RECURSIVE rollback(_, _, _)
rollback(applied, tgt, bk) ==
    IF applied = << >> THEN [res |-> Ok, target |-> tgt]
    ELSE LET r == rollback_entry(Head(applied), tgt, bk) IN
         IF r.res # Ok
         THEN [res |-> Err("RollbackFailed", r.res.file), target |-> r.target]
         ELSE rollback(Tail(applied), r.target, bk)


---------------------------------------------------------------------------
(* File contents and binary deltas (utils/diff.rs over bsdiff)             *)

Old == "old"
New == "new"
Junk == "junk"      \* any other bytes: unexpected, truncated or garbled

Corrupt == [base |-> "-", out |-> "-"]     \* a diff file that bsdiff rejects

\* create_diff with its arguments exchanged
create_diff_swapped(o, n) == [base |-> n, out |-> o]

\* bsdiff::diff(old, new): a delta that records what it was computed from
create_diff(o, n) == [base |-> o, out |-> n]

\* The outcomes of bsdiff::patch: the format carries no checksum of the base,
\* so a delta applied to another base is rejected or yields other bytes.
apply_diff(orig, diff) ==
    IF diff = Corrupt THEN {[ok |-> FALSE, data |-> Junk]}
    ELSE IF diff.base = orig THEN {[ok |-> TRUE, data |-> diff.out]}
    ELSE {[ok |-> FALSE, data |-> Junk], [ok |-> TRUE, data |-> Junk]}

---------------------------------------------------------------------------
(* Injected faults: a sabotaged bundle member or a failing write           *)

NoFault == [file |-> << >>, mode |-> "none"]

WriteFails(flt, f) == flt.mode = "ioerr" /\ flt.file = f

Sabotage(b, flt) ==
    CASE flt.mode = "invalid" ->
            [diffs |-> IF Exists(b.diffs, flt.file)
                       THEN WriteFile(b.diffs, flt.file, Corrupt) ELSE b.diffs,
             files |-> RemoveFile(b.files, flt.file)]
      [] flt.mode = "garbage" ->
            [diffs |-> IF Exists(b.diffs, flt.file)
                       THEN WriteFile(b.diffs, flt.file,
                                      create_diff(b.diffs[flt.file].base, Junk))
                       ELSE b.diffs,
             files |-> IF Exists(b.files, flt.file)
                       THEN WriteFile(b.files, flt.file, Junk) ELSE b.files]
      [] OTHER -> b

---------------------------------------------------------------------------
(* patch/apply.rs                                                          *)

Outcome(res, tgt) == [res |-> res, target |-> tgt]

\* The operation of one entry: the set of its possible outcomes.  A write
\* that fails (fs::write, fs::copy) may leave a truncated file behind.
apply_operation(e, tgt, b, flt) ==
    CASE e.op = "patch" ->
            IF ~Exists(tgt, e.file) THEN {Outcome(Err("ValidationFailed", e.file), tgt)}
            ELSE IF ~Exists(b.diffs, e.file)
            THEN {Outcome(Err("ValidationFailed", e.file), tgt)}
            ELSE UNION { IF ~r.ok THEN {Outcome(Err("ApplyFailed", e.file), tgt)}
                         ELSE IF WriteFails(flt, e.file)
                         THEN {Outcome(Err("ApplyFailed", e.file), tgt),
                               Outcome(Err("ApplyFailed", e.file), WriteFile(tgt, e.file, Junk))}
                         ELSE {Outcome(Ok, WriteFile(tgt, e.file, r.data))}
                       : r \in apply_diff(tgt[e.file], b.diffs[e.file]) }
      [] e.op = "add" ->
            IF ~Exists(b.files, e.file) THEN {Outcome(Err("ValidationFailed", e.file), tgt)}
            ELSE IF WriteFails(flt, e.file)
            THEN {Outcome(Err("ApplyFailed", e.file), tgt),
                  Outcome(Err("ApplyFailed", e.file), WriteFile(tgt, e.file, Junk))}
            ELSE {Outcome(Ok, WriteFile(tgt, e.file, b.files[e.file]))}
      [] e.op = "delete" ->
            IF ~Exists(tgt, e.file) THEN {Outcome(Ok, tgt)}
            ELSE IF WriteFails(flt, e.file)
            THEN {Outcome(Err("ApplyFailed", e.file), tgt)}
            ELSE {Outcome(Ok, RemoveFile(tgt, e.file))}

\* apply_entry: the operation, then the verification of its post-condition
apply_entry(e, tgt, b, flt) ==
    { IF o.res # Ok THEN o ELSE Outcome(verify_entry(e, o.target), o.target)
      : o \in apply_operation(e, tgt, b, flt) }

---------------------------------------------------------------------------
(* utils/dir_scan.rs and commands/patch_create.rs                          *)

CharCode(ch) ==
    CASE ch = "." -> 46 [] ch = "/" -> 47 [] ch = "H" -> 72 [] ch = "S" -> 83
      [] ch = "a" -> 97 [] ch = "b" -> 98 [] ch = "h" -> 104 [] ch = "s" -> 115

\* str::cmp: lexicographic on the bytes
RECURSIVE PathLess(_, _)
PathLess(p, q) ==
    IF q = << >> THEN FALSE
    ELSE IF p = << >> THEN TRUE
    ELSE IF CharCode(Head(p)) # CharCode(Head(q)) THEN CharCode(Head(p)) < CharCode(Head(q))
    ELSE PathLess(Tail(p), Tail(q))

\* a set of names as a sequence (the iteration order of the code is that of
\* a HashSet; the callers sort afterwards)
RECURSIVE SetToSeq(_)
SetToSeq(S) ==
    IF S = {} THEN << >>
    ELSE LET x == CHOOSE y \in S : TRUE IN <<x>> \o SetToSeq(S \ {x})

\* no sorting: the order in which the entries were pushed
keep_order(s) == s

\* sort_by(|a, b| a.file().cmp(b.file()))
sort_by_file(s) == SortSeq(s, LAMBDA x, y : PathLess(x.file, y.file))

DiffChange(f, o, n) == [change |-> "Diff", file |-> f, original_hash |-> o, final_hash |-> n]
NewChange(f, n) == [change |-> "New", file |-> f, original_hash |-> NoHash, final_hash |-> n]
OldChange(f, o) == [change |-> "Old", file |-> f, original_hash |-> o, final_hash |-> NoHash]

categorize_files_keeps_old(od, nd) ==
    LET both == SetToSeq({ f \in (DOMAIN od) \cap (DOMAIN nd) :
                               hash_bytes(od[f]) # hash_bytes(nd[f]) })
        news == SetToSeq((DOMAIN nd) \ (DOMAIN od))
    IN  sort_by_file(
            [i \in 1..Len(both) |->
                DiffChange(both[i], hash_bytes(od[both[i]]), hash_bytes(nd[both[i]]))]
         \o [i \in 1..Len(news) |-> NewChange(news[i], hash_bytes(nd[news[i]]))])

categorize_files(od, nd) ==
    LET both == SetToSeq({ f \in (DOMAIN od) \cap (DOMAIN nd) :
                               hash_bytes(od[f]) # hash_bytes(nd[f]) })
        news == SetToSeq((DOMAIN nd) \ (DOMAIN od))
        olds == SetToSeq((DOMAIN od) \ (DOMAIN nd))
    IN  sort_by_file(
            [i \in 1..Len(both) |->
                DiffChange(both[i], hash_bytes(od[both[i]]), hash_bytes(nd[both[i]]))]
         \o [i \in 1..Len(news) |-> NewChange(news[i], hash_bytes(nd[news[i]]))]
         \o [i \in 1..Len(olds) |-> OldChange(olds[i], hash_bytes(od[olds[i]]))])

\* patch_create::run: the manifest and the bundle directory it writes
entry_of_change(c, od, nd) ==
    CASE c.change = "Diff" ->
            PatchEntry(c.file, c.original_hash,
                       hash_bytes(create_diff(od[c.file], nd[c.file])), c.final_hash)
      [] c.change = "New" -> AddEntry(c.file, c.final_hash)
      [] c.change = "Old" -> DeleteEntry(c.file, c.original_hash)

patch_create_run(od, nd, allow) ==
    LET changes == categorize_files(od, nd)
        diffs == { changes[i].file : i \in { j \in 1..Len(changes) : changes[j].change = "Diff" } }
        news == { changes[i].file : i \in { j \in 1..Len(changes) : changes[j].change = "New" } }
    IN  [manifest |-> Manifest(allow,
                        sort_by_file([i \in 1..Len(changes) |->
                                          entry_of_change(changes[i], od, nd)])),
         bundle |-> [diffs |-> [f \in diffs |-> create_diff(od[f], nd[f])],
                     files |-> [f \in news |-> nd[f]]]]


---------------------------------------------------------------------------
(* The inputs of the model                                                 *)

fa == <<"a">>
fx == <<".", ".", "b">>         \* a legal file name that contains ".."

Files == {fa, fx}

HomeTarget == <<"/", "h", "o", "m", "e", "/", "g">>
UsrTarget == <<"/", "u", "s", "r", "/", "g">>

Dirs(F, C) == UNION { [S -> C] : S \in SUBSET F }

\* entries written by hand: consistent with a change of Old into New
HandEntries ==
    UNION { { PatchEntry(f, hash_bytes(Old), hash_bytes(create_diff(Old, New)), hash_bytes(New)),
              AddEntry(f, hash_bytes(New)),
              DeleteEntry(f, hash_bytes(Old)) } : f \in Files }

\* the bundle members that belong to hand-written entries
HandBundle(entries) ==
    [diffs |-> [f \in { e.file : e \in { x \in Range(entries) : x.op = "patch" } }
                   |-> create_diff(Old, New)],
     files |-> [f \in { e.file : e \in { x \in Range(entries) : x.op = "add" } } |-> New]]

\* the faults that touch an entry of the manifest
FaultsOf(entries) ==
    {NoFault}
      \cup { [file |-> e.file, mode |-> "ioerr"] : e \in Range(entries) }
      \cup { [file |-> e.file, mode |-> md] :
                 e \in { x \in Range(entries) : x.op \in {"patch", "add"} },
                 md \in {"invalid", "garbage"} }

NoBackup == [exists |-> FALSE, files |-> EmptyDir]

\* a .patch-backup directory left in the target by an earlier patch, emptied
LeftoverBackup == [exists |-> TRUE, files |-> EmptyDir]

NoCall ==
    [ep |-> "-", pre |-> EmptyDir, preBackup |-> NoBackup, idx |-> 0,
     applied |-> << >>, err |-> Ok, checks |-> 0, violations |-> << >>,
     phases |-> << >>]

NoLast ==
    [op |-> "-", ep |-> "-", force |-> FALSE, res |-> Ok, ev |-> "-",
     pre |-> EmptyDir, preBackup |-> NoBackup, checks |-> 0, violations |-> << >>,
     phases |-> << >>, rb |-> "-"]

NoPrev ==
    [op |-> "-", force |-> FALSE, res |-> Ok, pre |-> EmptyDir, preBackup |-> NoBackup,
     before |-> [op |-> "-", res |-> Ok]]

\* no user interface session
\*   mode      "Demo" or "Embedded" (gui.rs Mode), "Headless" (cli.rs)
\*   state     the AppState of the window; "Closed" after ViewportCommand::Close
\*   modified  the flag of AppState::AlreadyPatched
\*   rx        the receiver that is Some: the kind of worker the interface waits for
\*   runner    the worker has constructed its PatchRunner
\*   vres      the ValidationResult in the channel
\*   callno    the number of runner calls made when the worker was spawned
\*   force     the force flag handed to the rollback worker
\*   did       the last runner call this session made
\*   del       the last invocation of delete_backup: where from and after what
\*   hl        the last headless invocation: its command, the disk it found, its exit code
NoGui ==
    [mode |-> "-", state |-> "-", modified |-> FALSE, rx |-> "none", runner |-> FALSE,
     vres |-> "-", callno |-> 0, force |-> FALSE, did |-> "-", newerr |-> FALSE,
     del |-> [n |-> 0, from |-> "-", mode |-> "-", did |-> "-", res |-> Ok, had |-> FALSE],
     hl |-> [cmd |-> "-", pre |-> EmptyDir, preBackup |-> NoBackup, calls |-> 0, exit |-> "-"]]

\* no invocation of the command line yet
NoCli == [cmd |-> "-", args |-> << >>, exit |-> "-", n |-> 0]

\* no archive round trip under way
NoDir == [listable |-> TRUE, entries |-> EmptyDir]

NoOutput == [ok |-> TRUE, exists |-> FALSE, diffs_dir |-> FALSE, files_dir |-> FALSE,
             manifest |-> Manifest(FALSE, << >>), written |-> FALSE, diffs |-> EmptyDir, files |-> EmptyDir]

NoScan == [orig |-> NoDir, new |-> NoDir, step |-> "-", res |-> [ok |-> TRUE, changes |-> << >>],
           out |-> NoOutput]

NoDelta == [old |-> "", new |-> "", diff |-> [base |-> "-", out |-> "-"], base |-> "",
            res |-> [ok |-> FALSE, data |-> ""], step |-> "-"]

NoCheck == [routine |-> "-", res |-> Ok, n |-> 0,
            pre |-> [target |-> EmptyDir, backup |-> NoBackup,
                     bundle |-> [diffs |-> EmptyDir, files |-> EmptyDir]]]

NoRead == [kind |-> "-", data |-> << >>, reads |-> << >>]

NoExe == [file |-> << >>, stub |-> << >>, data |-> << >>, step |-> "-", res |-> NoRead]

NoInfo == [kind |-> "-", manifest |-> "-", skipped |-> 0]

NoArchive == [dir |-> EmptyDir, ok |-> TRUE, packed |-> << >>, unpacked |-> EmptyDir, step |-> "-",
              info |-> NoInfo]

Init ==
    /\ gui = NoGui
    /\ scratch = 0
    /\ cli = NoCli
    /\ archive = NoArchive
    /\ exe = NoExe
    /\ scan = NoScan
    /\ delta = NoDelta
    /\ check = NoCheck
    /\ target \in Dirs(Files, {Old, Junk})
    /\ target_dir = HomeTarget
    /\ manifest = Manifest(FALSE, << >>)
    /\ bundle = HandBundle(<< >>)
    /\ origin = [kind |-> "-", nd |-> EmptyDir]
    /\ fault = NoFault
    /\ backup \in {NoBackup, LeftoverBackup}
    /\ pc = "load"
    /\ call = NoCall
    /\ last = NoLast
    /\ prev = NoPrev
    /\ ncalls = 0

---------------------------------------------------------------------------
(* Producing the bundle                                                    *)

\* `graft patch create <target as orig> <nd>`: the target is a copy of orig
PatchCreate ==
    /\ pc = "load"
    /\ \E nd \in Dirs(Files, {Old, New}), allow \in BOOLEAN :
         LET r == patch_create_run(target, nd, allow) IN
         /\ Len(r.manifest.entries) <= MaxEntries
         /\ \E flt \in FaultsOf(r.manifest.entries) :
              /\ manifest' = r.manifest
              /\ bundle' = Sabotage(r.bundle, flt)
              /\ fault' = flt
              /\ origin' = [kind |-> "created", nd |-> nd]
    /\ pc' = "idle"
    /\ UNCHANGED <<target_dir, target, backup, call, last, prev, ncalls>>
    /\ UNCHANGED uivars

\* a bundle whose manifest.json was written by hand (Manifest::load)
LoadBundle ==
    /\ pc = "load"
    /\ \E entries \in SeqsUpTo(HandEntries, MaxEntries), allow \in BOOLEAN :
         \E flt \in FaultsOf(entries) :
              /\ manifest' = Manifest(allow, entries)
              /\ bundle' = Sabotage(HandBundle(entries), flt)
              /\ fault' = flt
              /\ origin' = [kind |-> "given", nd |-> EmptyDir]
    /\ pc' = "idle"
    /\ UNCHANGED <<target_dir, target, backup, call, last, prev, ncalls>>
    /\ UNCHANGED uivars

---------------------------------------------------------------------------
(* apply: commands/patch_apply.rs run ("cli") and PatchRunner::apply       *)
(* ("runner") run the same phases; the runner also emits events.           *)

Returned(op, ep, force, res, ev, c, rb) ==
    [op |-> op, ep |-> ep, force |-> force, res |-> res, ev |-> ev,
     pre |-> c.pre, preBackup |-> c.preBackup, checks |-> c.checks,
     violations |-> c.violations, phases |-> c.phases, rb |-> rb]

PrevOf(l, p) ==
    [op |-> l.op, force |-> l.force, res |-> l.res, pre |-> l.pre, preBackup |-> l.preBackup,
     before |-> [op |-> p.op, res |-> p.res]]

apply_return_swallowed(res) == Ok

\* what apply hands to its caller: `if let Err(e) = ... { return Err(e) } ... Ok(())`
apply_return(res) == res

TerminalEvent(ep, ev) == IF ep = "runner" THEN ev ELSE "-"

\* the call returns `res`
Return(op, ep, force, res, ev, c, rb) ==
    /\ last' = Returned(op, ep, force, res, TerminalEvent(ep, ev), c, rb)
    /\ prev' = PrevOf(last, prev)
    /\ call' = NoCall
    /\ pc' = "idle"

\* Validating phase: path restrictions, then validate_entries
ApplyValidate(ep) ==
    /\ pc = "idle"
    /\ ncalls < MaxCalls
    /\ ncalls' = ncalls + 1
    /\ LET c == [NoCall EXCEPT !.ep = ep, !.pre = target, !.preBackup = backup,
                               !.checks = 1,
                               !.violations = check_manifest(manifest, target_dir),
                               !.phases = <<"Validating">>]
       IN  IF validate_path_restrictions(manifest, target_dir) # Ok
           THEN Return("apply", ep, FALSE,
                       validate_path_restrictions(manifest, target_dir), "Error", c, "-")
           ELSE IF validate_entries(manifest.entries, target) # Ok
           THEN Return("apply", ep, FALSE,
                       validate_entries(manifest.entries, target), "Error", c, "-")
           ELSE /\ call' = c
                /\ pc' = "BackingUp"
                /\ UNCHANGED <<last, prev>>
    /\ UNCHANGED <<manifest, bundle, origin, fault, target_dir, target, backup>>
    /\ UNCHANGED uivars

\* copying the file into the backup directory fails with an I/O error
BackupFails(f) == fault.mode = "bkioerr" /\ fault.file = f

\* backup_entries that never fails
first_backup_failure_ignored(entries, tgt) == 0

\* backup_entries that copies without looking whether the target file exists
first_backup_failure_unguarded(entries, tgt) ==
    LET failing == { i \in DOMAIN entries : BackupFails(entries[i].file) } IN
    IF failing = {} THEN 0 ELSE CHOOSE i \in failing : \A j \in failing : i <= j

\* the first entry whose backup_file fails (0: none); backup_entries returns
\* BackupFailed there, with the copies of the entries before it made
first_backup_failure(entries, tgt) ==
    LET failing == { i \in DOMAIN entries :
                        /\ entries[i].op \in {"patch", "delete"}
                        /\ Exists(tgt, entries[i].file)
                        /\ BackupFails(entries[i].file) } IN
    IF failing = {} THEN 0 ELSE CHOOSE i \in failing : \A j \in failing : i <= j

\* BackingUp phase: backup_entries
ApplyBackup ==
    /\ pc = "BackingUp"
    /\ LET k == first_backup_failure(manifest.entries, target) IN
         IF k = 0
         THEN /\ backup' = backup_entries(manifest.entries, target, backup)
              /\ call' = [call EXCEPT !.phases = Append(@, "BackingUp"), !.idx = 1]
              /\ pc' = "Applying"
              /\ UNCHANGED <<last, prev>>
         ELSE /\ backup' = backup_entries(SubSeq(manifest.entries, 1, k - 1), target, backup)
              /\ Return("apply", call.ep, FALSE,
                        apply_return(Err("BackupFailed", manifest.entries[k].file)), "Error",
                        [call EXCEPT !.phases = Append(@, "BackingUp")], "-")
    /\ UNCHANGED <<manifest, bundle, origin, fault, target_dir, target, ncalls>>
    /\ UNCHANGED uivars

\* Applying phase, apply_entries: one entry per step; the first failure
\* hands over to the rollback of the entries applied so far
ApplyEntry ==
    /\ pc = "Applying"
    /\ call.idx <= Len(manifest.entries)
    /\ \E o \in apply_entry(manifest.entries[call.idx], target, bundle, fault) :
         /\ target' = o.target
         /\ IF o.res = Ok
            THEN /\ call' = [call EXCEPT
                                !.phases = IF call.idx = 1 THEN Append(@, "Applying") ELSE @,
                                !.idx = @ + 1,
                                !.applied = Append(@, manifest.entries[call.idx])]
                 /\ pc' = "Applying"
            ELSE /\ call' = [call EXCEPT
                                !.phases = IF call.idx = 1 THEN Append(@, "Applying") ELSE @,
                                !.err = o.res]
                 /\ pc' = "RollingBack"
    /\ UNCHANGED <<manifest, bundle, origin, fault, target_dir, backup, last, prev, ncalls>>
    /\ UNCHANGED uivars

\* every entry is applied: apply_entries returns Ok
ApplyDone ==
    /\ pc = "Applying"
    /\ call.idx > Len(manifest.entries)
    /\ Return("apply", call.ep, FALSE, apply_return(Ok), "Done",
              [call EXCEPT !.phases = IF Len(manifest.entries) = 0
                                      THEN Append(@, "Applying") ELSE @], "-")
    /\ UNCHANGED <<manifest, bundle, origin, fault, target_dir, target, backup, ncalls>>
    /\ UNCHANGED uivars

\* rollback(applied, ...) inside apply_entries; the original error is returned
ApplyRollback ==
    /\ pc = "RollingBack"
    /\ LET r == rollback(call.applied, target, backup) IN
         /\ target' = r.target
         /\ Return("apply", call.ep, FALSE, apply_return(call.err), "Error",
                   [call EXCEPT !.phases = Append(@, "RollingBack")], r.res.kind)
    /\ UNCHANGED <<manifest, bundle, origin, fault, target_dir, backup, ncalls>>
    /\ UNCHANGED uivars

---------------------------------------------------------------------------
(* PatchRunner::rollback                                                   *)

RunnerRollback(force) ==
    /\ pc = "idle"
    /\ ncalls < MaxCalls
    /\ ncalls' = ncalls + 1
    /\ LET c == [NoCall EXCEPT !.ep = "runner", !.pre = target, !.preBackup = backup]
           post == validate_patched_entries(manifest.entries, target)
           bk == validate_backup(manifest.entries, backup.files)
           r == rollback(manifest.entries, target, backup)
       IN  IF ~backup.exists
           THEN /\ Return("rollback", "runner", force, Err("RollbackFailed", << >>), "Error", c, "-")
                /\ target' = target
           ELSE IF ~force /\ post # Ok
           THEN /\ Return("rollback", "runner", force, post, "TargetModified", c, "-")
                /\ target' = target
           ELSE IF bk # Ok
           THEN /\ Return("rollback", "runner", force, bk, "Error", c, "-")
                /\ target' = target
           ELSE /\ Return("rollback", "runner", force, r.res,
                          IF r.res = Ok THEN "Done" ELSE "Rolling", c, r.res.kind)
                /\ target' = r.target
    /\ UNCHANGED <<manifest, bundle, origin, fault, target_dir, backup>>
    /\ UNCHANGED uivars

Next ==
    \/ PatchCreate
    \/ LoadBundle
    \/ \E ep \in {"cli", "runner"} : ApplyValidate(ep)
    \/ ApplyBackup
    \/ ApplyEntry
    \/ ApplyDone
    \/ ApplyRollback
    \/ \E force \in BOOLEAN : RunnerRollback(force)

Spec == Init /\ [][Next]_vars


---------------------------------------------------------------------------
(* The policy on arbitrary paths: the Validating phase of apply on a       *)
(* manifest whose first entry names any path over a small alphabet.        *)

PathAlphabet == {".", "/", "a", "s", "H"}

PolicyPaths == UNION { [1..n -> PathAlphabet] : n \in 1..MaxPathLen }

EntryOfKind(k, f) ==
    CASE k = "patch" -> PatchEntry(f, hash_bytes(Old), hash_bytes(create_diff(Old, New)),
                                   hash_bytes(New))
      [] k = "add" -> AddEntry(f, hash_bytes(New))
      [] k = "delete" -> DeleteEntry(f, hash_bytes(Old))

InitPolicy ==
    /\ gui = NoGui
    /\ scratch = 0
    /\ cli = NoCli
    /\ archive = NoArchive
    /\ exe = NoExe
    /\ scan = NoScan
    /\ delta = NoDelta
    /\ check = NoCheck
    /\ \E p \in PolicyPaths, k \in {"patch", "add", "delete"}, allow \in BOOLEAN :
         \E entries \in { <<EntryOfKind(k, p)>>,
                          <<EntryOfKind(k, p), AddEntry(fa, hash_bytes(New))>>,
                          <<AddEntry(fa, hash_bytes(New)), EntryOfKind(k, p)>> } :
              /\ manifest = Manifest(allow, entries)
              /\ bundle = HandBundle(entries)
              /\ target \in Dirs({p}, {Old})
    /\ target_dir \in {HomeTarget, UsrTarget}
    /\ origin = [kind |-> "given", nd |-> EmptyDir]
    /\ fault = NoFault
    /\ backup = NoBackup
    /\ pc = "idle"
    /\ call = NoCall
    /\ last = NoLast
    /\ prev = NoPrev
    /\ ncalls = MaxCalls - 1

NextPolicy == \E ep \in {"cli", "runner"} : ApplyValidate(ep)

SpecPolicy == InitPolicy /\ [][NextPolicy]_vars

---------------------------------------------------------------------------
(* Rollback over any backup directory: the target is in any state and the  *)
(* .patch-backup directory is missing or holds any files.                  *)

\* commands/patch_rollback.rs run: no post-state check, so it is recorded as forced
CliRollback ==
    /\ pc = "idle"
    /\ ncalls < MaxCalls
    /\ ncalls' = ncalls + 1
    /\ LET c == [NoCall EXCEPT !.ep = "cli", !.pre = target, !.preBackup = backup]
           bk == validate_backup(manifest.entries, backup.files)
           r == rollback(manifest.entries, target, backup)
       IN  IF ~backup.exists
           THEN /\ Return("rollback", "cli", TRUE, Err("RollbackFailed", << >>), "-", c, "-")
                /\ target' = target
           ELSE IF bk # Ok
           THEN /\ Return("rollback", "cli", TRUE, bk, "-", c, "-")
                /\ target' = target
           ELSE /\ Return("rollback", "cli", TRUE, r.res, "-", c, r.res.kind)
                /\ target' = r.target
    /\ UNCHANGED <<manifest, bundle, origin, fault, target_dir, backup>>
    /\ UNCHANGED uivars

InitRollback ==
    /\ gui = NoGui
    /\ scratch = 0
    /\ cli = NoCli
    /\ archive = NoArchive
    /\ exe = NoExe
    /\ scan = NoScan
    /\ delta = NoDelta
    /\ check = NoCheck
    /\ \E entries \in SeqsUpTo(HandEntries, MaxEntries) :
          /\ manifest = Manifest(FALSE, entries)
          /\ bundle = HandBundle(entries)
    /\ origin = [kind |-> "given", nd |-> EmptyDir]
    /\ fault = NoFault
    /\ target_dir = HomeTarget
    /\ target \in Dirs(Files, {Old, New, Junk})
    /\ backup \in {NoBackup} \cup { [exists |-> TRUE, files |-> d] : d \in Dirs(Files, {Old, Junk}) }
    /\ pc = "idle"
    /\ call = NoCall
    /\ last = NoLast
    /\ prev = NoPrev
    /\ ncalls = MaxCalls - 1

NextRollback ==
    \/ \E force \in BOOLEAN : RunnerRollback(force)
    \/ CliRollback

---------------------------------------------------------------------------
(* patch::rollback called on its own: any list of entries, any target and  *)
(* backup directory, with or without a failing restore or removal          *)

\* rollback(applied, target_dir, backup_dir, None) with the manifest's entries as `applied`
Rollback ==
    /\ pc = "idle"
    /\ ncalls < MaxCalls
    /\ ncalls' = ncalls + 1
    /\ LET c == [NoCall EXCEPT !.ep = "core", !.pre = target, !.preBackup = backup]
           r == rollback(manifest.entries, target, backup)
       IN  /\ Return("rollback", "core", TRUE, r.res, "-", c, r.res.kind)
           /\ target' = r.target
    /\ UNCHANGED <<manifest, bundle, origin, fault, target_dir, backup>>
    /\ UNCHANGED uivars

InitInverse ==
    /\ gui = NoGui
    /\ scratch = 0
    /\ cli = NoCli
    /\ archive = NoArchive
    /\ exe = NoExe
    /\ scan = NoScan
    /\ delta = NoDelta
    /\ check = NoCheck
    /\ \E entries \in SeqsUpTo(HandEntries, MaxEntries) :
          /\ manifest = Manifest(FALSE, entries)
          /\ bundle = HandBundle(entries)
          /\ fault \in {NoFault} \cup { [file |-> e.file, mode |-> "rbioerr"] : e \in Range(entries) }
    /\ origin = [kind |-> "given", nd |-> EmptyDir]
    /\ target_dir = HomeTarget
    /\ target \in Dirs(Files, {Old, New})
    /\ backup \in {NoBackup} \cup { [exists |-> TRUE, files |-> d] : d \in Dirs(Files, {Old}) }
    /\ pc = "idle"
    /\ call = NoCall
    /\ last = NoLast
    /\ prev = NoPrev
    /\ ncalls = MaxCalls - 1

NextInverse == Rollback

SpecInverse == InitInverse /\ [][NextInverse]_vars

\* every fault of one invocation of apply: a sabotaged bundle member, a
\* failing write, a failing copy into the backup, a failing restore
PhaseFaults(entries) ==
    FaultsOf(entries)
      \cup { [file |-> e.file, mode |-> md] : e \in Range(entries), md \in {"bkioerr", "rbioerr"} }

\* apply on a bundle written by hand, under every such fault
InitPhases ==
    /\ gui = NoGui
    /\ scratch = 0
    /\ cli = NoCli
    /\ archive = NoArchive
    /\ exe = NoExe
    /\ scan = NoScan
    /\ delta = NoDelta
    /\ check = NoCheck
    /\ \E entries \in SeqsUpTo(HandEntries, MaxEntries), allow \in BOOLEAN :
          /\ manifest = Manifest(allow, entries)
          /\ \E flt \in PhaseFaults(entries) :
                /\ fault = flt
                /\ bundle = Sabotage(HandBundle(entries), flt)
    /\ origin = [kind |-> "given", nd |-> EmptyDir]
    /\ target_dir \in {HomeTarget, UsrTarget}
    /\ target \in Dirs(Files, {Old, Junk})
    /\ backup \in {NoBackup, LeftoverBackup}
    /\ pc = "idle"
    /\ call = NoCall
    /\ last = NoLast
    /\ prev = NoPrev
    /\ ncalls = MaxCalls - 1

NextPhases ==
    \/ \E ep \in {"cli", "runner"} : ApplyValidate(ep)
    \/ ApplyBackup
    \/ ApplyEntry
    \/ ApplyDone
    \/ ApplyRollback

SpecPhases == InitPhases /\ [][NextPhases]_vars

---------------------------------------------------------------------------
(* Sequences of apply and rollback calls of one bundle on one target,      *)
(* under every fault, with nothing else writing to the target              *)

InitSequence ==
    /\ gui = NoGui
    /\ scratch = 0
    /\ cli = NoCli
    /\ archive = NoArchive
    /\ exe = NoExe
    /\ scan = NoScan
    /\ delta = NoDelta
    /\ check = NoCheck
    /\ \E entries \in SeqsUpTo(HandEntries, MaxEntries) :
          /\ manifest = Manifest(FALSE, entries)
          /\ \E flt \in PhaseFaults(entries) :
                /\ fault = flt
                /\ bundle = Sabotage(HandBundle(entries), flt)
    /\ origin = [kind |-> "given", nd |-> EmptyDir]
    /\ target_dir = HomeTarget
    /\ target \in Dirs(Files, {Old, Junk})
    /\ backup \in {NoBackup, LeftoverBackup}
    /\ pc = "idle"
    /\ call = NoCall
    /\ last = NoLast
    /\ prev = NoPrev
    /\ ncalls = 0

NextSequence ==
    \/ \E ep \in {"cli", "runner"} : ApplyValidate(ep)
    \/ ApplyBackup
    \/ ApplyEntry
    \/ ApplyDone
    \/ ApplyRollback
    \/ \E force \in BOOLEAN : RunnerRollback(force)
    \/ CliRollback

SpecSequence == InitSequence /\ [][NextSequence]_vars

SpecRollback == InitRollback /\ [][NextRollback]_vars

---------------------------------------------------------------------------
(* The patcher's user interface: the window of gui.rs (GraftApp, in Demo   *)
(* or Embedded mode) and the headless runs of cli.rs.  Each worker thread  *)
(* constructs its own PatchRunner and reports through a channel; the       *)
(* window reads the channel in update().                                   *)

MaxScratch == 4

has_backup_never(bk) == FALSE

\* PatchRunner::has_backup
has_backup(bk) == bk.exists

\* PatchRunner::is_patched
is_patched(m, tgt) == validate_patched_entries(m.entries, tgt) = Ok

\* PatchRunner::validate_target
validate_target(m, tdir, tgt) ==
    IF validate_path_restrictions(m, tdir) # Ok
    THEN validate_path_restrictions(m, tdir)
    ELSE validate_entries(m.entries, tgt)

\* PatchRunner::delete_backup
delete_backup(bk) == IF bk.exists THEN NoBackup ELSE bk

\* Manifest::load: serde_json::from_str into Manifest; any u32 parses as the version
load(m) == [res |-> Ok, manifest |-> m]

\* the worker's call of the runner has returned
WorkerFinished == pc = "idle" /\ ncalls > gui.callno

Deleted(from) ==
    [n |-> gui.del.n + 1, from |-> from, mode |-> gui.mode, did |-> gui.did,
     res |-> last.res, had |-> backup.exists]

\* PatchRunner::new may fail (the temporary directory cannot be created or
\* the archive cannot be unpacked into it); each call fails or succeeds
new_fails == fault.mode = "tmperr"

\* the first statement of every worker thread: PatchRunner::new unpacks the
\* archive into a scratch directory and keeps it (temp_dir.keep())
WorkerNew ==
    /\ gui.rx \in {"validation", "progress", "rollback"}
    /\ ~gui.runner
    /\ gui.vres = "-" /\ ~gui.newerr
    /\ load(manifest).res = Ok
    /\ gui' = [gui EXCEPT !.runner = TRUE]
    /\ scratch' = scratch + 1
    /\ UNCHANGED <<corevars, cli, archive, toolvars>>

\* PatchRunner::new returns Err in a worker thread: the worker sends Invalid
\* (validation) or Error (apply, rollback) and ends
WorkerNewFailed ==
    /\ gui.rx \in {"validation", "progress", "rollback"}
    /\ ~gui.runner
    /\ new_fails
    /\ gui.vres = "-" /\ ~gui.newerr
    /\ gui' = IF gui.rx = "validation"
              THEN [gui EXCEPT !.vres = "Invalid"]
              ELSE [gui EXCEPT !.newerr = TRUE]
    /\ UNCHANGED <<corevars, scratch, cli, archive, toolvars>>

\* a folder selection offered by every view of the window
start_validation_any_view ==
    /\ gui.mode \in {"Demo", "Embedded"}
    /\ gui.state # "Closed"
    /\ IF gui.mode = "Demo"
       THEN gui' = [gui EXCEPT !.state = "FolderSelected"]
       ELSE /\ scratch < MaxScratch
            /\ gui' = [gui EXCEPT !.state = "ValidatingFolder", !.rx = "validation",
                                  !.runner = FALSE, !.vres = "-", !.newerr = FALSE]
    /\ UNCHANGED <<corevars, scratch, cli, archive, toolvars>>

\* Select Folder / Use Path / Change Folder / Choose Different Folder
start_validation ==
    /\ gui.mode \in {"Demo", "Embedded"}
    /\ gui.state \in {"Welcome", "FolderSelected", "FolderInvalid"}
    /\ IF gui.mode = "Demo"
       THEN gui' = [gui EXCEPT !.state = "FolderSelected"]
       ELSE /\ scratch < MaxScratch
            /\ gui' = [gui EXCEPT !.state = "ValidatingFolder", !.rx = "validation",
                                  !.runner = FALSE, !.vres = "-", !.newerr = FALSE]
    /\ UNCHANGED <<corevars, scratch, cli, archive, toolvars>>

\* the worker thread of start_validation, after PatchRunner::new
validation_worker ==
    /\ gui.rx = "validation" /\ gui.runner /\ gui.vres = "-"
    /\ gui' = [gui EXCEPT !.vres =
                  IF has_backup(backup)
                  THEN IF is_patched(manifest, target)
                       THEN "AlreadyPatched" ELSE "AlreadyPatchedModified"
                  ELSE IF validate_target(manifest, target_dir, target) = Ok
                       THEN "Valid" ELSE "Invalid"]
    /\ UNCHANGED <<corevars, scratch, cli, archive, toolvars>>

process_validation_messages ==
    /\ gui.mode = "Embedded"
    /\ gui.rx = "validation" /\ gui.vres # "-"
    /\ gui' = [gui EXCEPT
                  !.state = IF gui.state # "ValidatingFolder" THEN @
                            ELSE CASE gui.vres = "Valid" -> "FolderSelected"
                                   [] gui.vres = "Invalid" -> "FolderInvalid"
                                   [] OTHER -> "AlreadyPatched",
                  !.modified = (gui.state = "ValidatingFolder"
                                   /\ gui.vres = "AlreadyPatchedModified"),
                  !.rx = "none", !.runner = FALSE, !.vres = "-"]
    /\ UNCHANGED <<corevars, scratch, cli, archive, toolvars>>

\* Apply Patch (FolderSelected) / Re-apply Patch (AlreadyPatched, modified)
start_apply ==
    /\ gui.mode \in {"Demo", "Embedded"}
    /\ \/ gui.state = "FolderSelected"
       \/ gui.state = "AlreadyPatched" /\ gui.modified
    /\ IF gui.mode = "Demo"
       THEN gui' = [gui EXCEPT !.state = "Applying"]
       ELSE /\ ncalls < MaxCalls /\ scratch < MaxScratch
            /\ gui' = [gui EXCEPT !.state = "Applying", !.rx = "progress",
                                  !.runner = FALSE, !.callno = ncalls, !.newerr = FALSE]
    /\ UNCHANGED <<corevars, scratch, cli, archive, toolvars>>

\* runner.apply in the worker thread of start_apply or in run_headless
apply_worker ==
    /\ gui.rx \in {"progress", "headless_apply"}
    /\ gui.runner
    /\ ncalls = gui.callno
    /\ ApplyValidate("runner")

\* a progress handler that acts on Done alone
process_progress_messages_done_only ==
    /\ gui.mode = "Embedded"
    /\ gui.rx = "progress"
    /\ ~gui.newerr /\ WorkerFinished /\ last.ev = "Done"
    /\ gui' = [gui EXCEPT
                  !.state = IF gui.state = "Applying" THEN "Success" ELSE @,
                  !.rx = "none", !.runner = FALSE, !.did = "apply"]
    /\ UNCHANGED <<corevars, scratch, cli, archive, toolvars>>

process_progress_messages ==
    /\ gui.mode = "Embedded"
    /\ gui.rx = "progress"
    /\ gui.newerr \/ (WorkerFinished /\ last.ev \in {"Done", "Error"})
    /\ gui' = [gui EXCEPT
                  !.state = IF gui.newerr \/ last.ev = "Error" THEN "Error"
                            ELSE IF gui.state = "Applying" THEN "Success" ELSE @,
                  !.rx = "none", !.runner = FALSE, !.newerr = FALSE,
                  !.did = IF gui.newerr THEN @ ELSE "apply"]
    /\ UNCHANGED <<corevars, scratch, cli, archive, toolvars>>

\* Simulate Progress (to its end) / Simulate Error, Demo mode only
demo_simulate ==
    /\ gui.mode = "Demo"
    /\ gui.state = "Applying"
    /\ \E s \in {"Success", "Error"} : gui' = [gui EXCEPT !.state = s]
    /\ UNCHANGED <<corevars, scratch, cli, archive, toolvars>>

\* rollback buttons that pass either value of force from every view that has one
start_rollback_any_force(force) ==
    /\ gui.mode \in {"Demo", "Embedded"}
    /\ gui.state \in {"Success", "AlreadyPatched", "RollbackWarning"}
    /\ IF gui.mode = "Demo"
       THEN gui' = [gui EXCEPT !.state = "RollbackComplete"]
       ELSE /\ ncalls < MaxCalls /\ scratch < MaxScratch
            /\ gui' = [gui EXCEPT !.state = "RollingBack", !.rx = "rollback",
                                  !.runner = FALSE, !.callno = ncalls, !.force = force,
                                  !.newerr = FALSE]
    /\ UNCHANGED <<corevars, scratch, cli, archive, toolvars>>

\* Rollback (Success; AlreadyPatched, not modified) with force = false,
\* Rollback Anyway (AlreadyPatched, modified; RollbackWarning) with force = true
start_rollback(force) ==
    /\ gui.mode \in {"Demo", "Embedded"}
    /\ \/ gui.state = "Success" /\ ~force
       \/ gui.state = "AlreadyPatched" /\ force = gui.modified
       \/ gui.state = "RollbackWarning" /\ force
    /\ IF gui.mode = "Demo"
       THEN gui' = [gui EXCEPT !.state = "RollbackComplete"]
       ELSE /\ ncalls < MaxCalls /\ scratch < MaxScratch
            /\ gui' = [gui EXCEPT !.state = "RollingBack", !.rx = "rollback",
                                  !.runner = FALSE, !.callno = ncalls, !.force = force,
                                  !.newerr = FALSE]
    /\ UNCHANGED <<corevars, scratch, cli, archive, toolvars>>

\* runner.rollback in the worker thread of start_rollback or in run_rollback
rollback_worker ==
    /\ gui.rx \in {"rollback", "headless_rollback"}
    /\ gui.runner
    /\ ncalls = gui.callno
    /\ RunnerRollback(gui.force)

\* TargetModified, Done and Error end the wait; Rolling only adds to the log
process_rollback_messages ==
    /\ gui.mode = "Embedded"
    /\ gui.rx = "rollback"
    /\ gui.newerr \/ (WorkerFinished /\ last.ev \in {"TargetModified", "Done", "Error"})
    /\ gui' = [gui EXCEPT
                  !.state = IF gui.state # "RollingBack" THEN @
                            ELSE CASE gui.newerr -> "Error"
                                   [] last.ev = "TargetModified" -> "RollbackWarning"
                                   [] last.ev = "Done" -> "RollbackComplete"
                                   [] OTHER -> "Error",
                  !.rx = "none", !.runner = FALSE, !.newerr = FALSE,
                  !.did = IF gui.newerr THEN @ ELSE "rollback"]
    /\ UNCHANGED <<corevars, scratch, cli, archive, toolvars>>

\* Try Again (Error) / Cancel (RollbackWarning)
to_welcome ==
    /\ gui.state \in {"Error", "RollbackWarning"}
    /\ gui' = [gui EXCEPT !.state = "Welcome"]
    /\ UNCHANGED <<corevars, scratch, cli, archive, toolvars>>

\* Delete Backup (RollbackComplete)
render_rollback_complete_delete ==
    /\ gui.state = "RollbackComplete"
    /\ backup' = delete_backup(backup)
    /\ gui' = [gui EXCEPT !.state = "Closed", !.del = Deleted("RollbackComplete")]
    /\ UNCHANGED <<manifest, bundle, origin, fault, target_dir, target, pc, call, last, prev,
                   ncalls, scratch, cli, archive, toolvars>>

\* Quit (Success, Error) / Keep Backup (RollbackComplete)
close ==
    /\ gui.state \in {"Success", "Error", "RollbackComplete"}
    /\ gui' = [gui EXCEPT !.state = "Closed"]
    /\ UNCHANGED <<corevars, scratch, cli, archive, toolvars>>

HeadlessStart(cmd, exit) ==
    [cmd |-> cmd, pre |-> target, preBackup |-> backup, calls |-> ncalls, exit |-> exit]

\* cli.rs run_headless up to runner.apply; `yes` is -y or the answer "y"
run_headless(yes) ==
    /\ gui.mode = "Headless"
    /\ gui.rx = "none"
    /\ scratch < MaxScratch /\ ncalls < MaxCalls
    /\ load(manifest).res = Ok
    /\ UNCHANGED <<corevars, cli, archive, toolvars>>
    /\ \E failed \in {FALSE, new_fails} :
          /\ scratch' = IF failed THEN scratch ELSE scratch + 1
          /\ IF failed \/ has_backup(backup)
             THEN gui' = [gui EXCEPT !.hl = HeadlessStart("apply", 1)]
             ELSE IF validate_target(manifest, target_dir, target) # Ok
             THEN gui' = [gui EXCEPT !.hl = HeadlessStart("apply", 1)]
             ELSE IF ~yes
             THEN gui' = [gui EXCEPT !.hl = HeadlessStart("apply", 0)]
             ELSE gui' = [gui EXCEPT !.hl = HeadlessStart("apply", "-"),
                                     !.rx = "headless_apply",
                                     !.runner = TRUE, !.callno = ncalls]

\* cli.rs run_headless: `match result`
run_headless_exit ==
    /\ gui.rx = "headless_apply"
    /\ WorkerFinished
    /\ gui' = [gui EXCEPT !.hl.exit = IF last.res = Ok THEN 0 ELSE 1,
                          !.rx = "none", !.runner = FALSE, !.did = "apply"]
    /\ UNCHANGED <<corevars, scratch, cli, archive, toolvars>>

\* cli.rs run_rollback up to runner.rollback
run_rollback(force) ==
    /\ gui.mode = "Headless"
    /\ gui.rx = "none"
    /\ scratch < MaxScratch /\ ncalls < MaxCalls
    /\ load(manifest).res = Ok
    /\ UNCHANGED <<corevars, cli, archive, toolvars>>
    /\ \E failed \in {FALSE, new_fails} :
          /\ scratch' = IF failed THEN scratch ELSE scratch + 1
          /\ IF failed \/ ~has_backup(backup)
             THEN gui' = [gui EXCEPT !.hl = HeadlessStart("rollback", 1)]
             ELSE gui' = [gui EXCEPT !.hl = HeadlessStart("rollback", "-"),
                                     !.rx = "headless_rollback", !.runner = TRUE,
                                     !.callno = ncalls, !.force = force]

\* cli.rs run_rollback: error_occurred, `match result`, "Delete backup directory? [y/N]"
run_rollback_exit(answer) ==
    /\ gui.rx = "headless_rollback"
    /\ WorkerFinished
    /\ IF last.ev \in {"TargetModified", "Error"} \/ last.res # Ok
       THEN /\ gui' = [gui EXCEPT !.hl.exit = 1, !.rx = "none", !.runner = FALSE,
                                  !.did = "rollback"]
            /\ backup' = backup
       ELSE IF answer = "y"
       THEN /\ gui' = [gui EXCEPT !.hl.exit = 0, !.rx = "none", !.runner = FALSE,
                                  !.did = "rollback",
                                  !.del = [Deleted("run_rollback") EXCEPT !.did = "rollback"]]
            /\ backup' = delete_backup(backup)
       ELSE /\ gui' = [gui EXCEPT !.hl.exit = 0, !.rx = "none", !.runner = FALSE,
                                  !.did = "rollback"]
            /\ backup' = backup
    /\ UNCHANGED <<manifest, bundle, origin, fault, target_dir, target, pc, call, last, prev,
                   ncalls, scratch, cli, archive, toolvars>>

\* entries of a patch for the one file fa
UiEntries == { e \in HandEntries : e.file = fa }

\* the faults of apply, and a restore or remove that fails during rollback
UiFaults(entries) ==
    FaultsOf(entries)
      \cup { [file |-> e.file, mode |-> "rbioerr"] : e \in Range(entries) }
      \cup { [file |-> << >>, mode |-> "tmperr"] }

InitUi ==
    /\ \E m \in {"Demo", "Embedded", "Headless"} :
          gui = [NoGui EXCEPT !.mode = m, !.state = IF m = "Headless" THEN "-" ELSE "Welcome"]
    /\ scratch = 0
    /\ cli = NoCli
    /\ archive = NoArchive
    /\ exe = NoExe
    /\ scan = NoScan
    /\ delta = NoDelta
    /\ check = NoCheck
    /\ \E entries \in SeqsUpTo(UiEntries, MaxEntries), v \in {1, 2} :
          /\ manifest = [Manifest(FALSE, entries) EXCEPT !.version = v]
          /\ bundle = HandBundle(entries)
          /\ fault \in UiFaults(entries)
    /\ origin = [kind |-> "given", nd |-> EmptyDir]
    /\ target_dir = HomeTarget
    /\ target \in Dirs({fa}, {Old, New})
    /\ backup \in {NoBackup, LeftoverBackup, [exists |-> TRUE, files |-> [f \in {fa} |-> Old]]}
    /\ pc = "idle"
    /\ call = NoCall
    /\ last = NoLast
    /\ prev = NoPrev
    /\ ncalls = 0

NextUi ==
    \/ WorkerNew
    \/ WorkerNewFailed
    \/ start_validation
    \/ validation_worker
    \/ process_validation_messages
    \/ start_apply
    \/ apply_worker
    \/ ApplyBackup
    \/ ApplyEntry
    \/ ApplyDone
    \/ ApplyRollback
    \/ process_progress_messages
    \/ demo_simulate
    \/ \E force \in BOOLEAN : start_rollback(force)
    \/ rollback_worker
    \/ process_rollback_messages
    \/ to_welcome
    \/ render_rollback_complete_delete
    \/ close
    \/ \E yes \in BOOLEAN : run_headless(yes)
    \/ run_headless_exit
    \/ \E force \in BOOLEAN : run_rollback(force)
    \/ \E answer \in {"y", "n"} : run_rollback_exit(answer)

SpecUi == InitUi /\ [][NextUi]_vars

\* the steps of the worker thread of start_apply, and the window's poll of
\* the progress channel in every frame
ApplyProgress ==
    \/ gui.rx = "progress" /\ (WorkerNew \/ WorkerNewFailed \/ apply_worker)
    \/ gui.rx = "progress" /\ (ApplyBackup \/ ApplyEntry \/ ApplyDone \/ ApplyRollback)
    \/ process_progress_messages

\* the window under a scheduler that runs the apply worker and a user
\* interface that keeps polling
SpecUiLive == InitUi /\ [][NextUi]_vars /\ WF_vars(ApplyProgress)

---------------------------------------------------------------------------
(* The `graft` command line (main.rs): the hash and diff commands and the  *)
(* exit code of the process.  A file argument is its content, or Missing   *)
(* when fs::read fails.                                                    *)

Missing == "missing"

Contents == {Old, New, Junk}

FileArgs == Contents \cup {Missing}

\* a diff file that cannot be read
MissingDiff == [base |-> Missing, out |-> Missing]

DiffArgs == { create_diff(o, n) : o \in Contents, n \in Contents } \cup {Corrupt, MissingDiff}

\* commands/check.rs run
check_run(expected, file) ==
    IF file = Missing THEN "Err"
    ELSE IF hash_bytes(file) = expected THEN "Match" ELSE "NoMatch"

\* commands/compare.rs run
compare_run(file1, file2) ==
    IF file1 = Missing \/ file2 = Missing THEN "Err"
    ELSE IF hash_bytes(file1) = hash_bytes(file2) THEN "Matches" ELSE "Differs"

\* commands/calculate.rs run
calculate_run(file) == IF file = Missing THEN "Err" ELSE "Ok"

\* commands/diff_create.rs run
diff_create_run(orig, new) == IF orig = Missing \/ new = Missing THEN "Err" ELSE "Ok"

\* commands/diff_apply.rs run: the possible results
diff_apply_run(orig, diff) ==
    IF orig = Missing \/ diff = MissingDiff THEN {"Err"}
    ELSE { IF r.ok THEN "Ok" ELSE "Err" : r \in apply_diff(orig, diff) }

\* main: the process exits 0 when main returns without process::exit
exit_hash_calculate(r) == IF r = "Err" THEN 2 ELSE 0

exit_hash_compare(r) ==
    CASE r = "Err" -> 2
      [] r = "Matches" -> 0
      [] r = "Differs" -> 1

exit_hash_check(r) ==
    CASE r = "Err" -> 2
      [] r = "Match" -> 0
      [] r = "NoMatch" -> 0

exit_diff(r) == IF r = "Err" THEN 2 ELSE 0

Invoked(cmd, args, exit) == [cmd |-> cmd, args |-> args, exit |-> exit, n |-> cli.n + 1]

HashCalculate ==
    /\ cli.n < MaxCalls
    /\ \E file \in FileArgs :
          cli' = Invoked("hash calculate", <<file>>, exit_hash_calculate(calculate_run(file)))
    /\ UNCHANGED <<corevars, gui, scratch, archive, toolvars>>

HashCompare ==
    /\ cli.n < MaxCalls
    /\ \E file1 \in FileArgs, file2 \in FileArgs :
          cli' = Invoked("hash compare", <<file1, file2>>,
                         exit_hash_compare(compare_run(file1, file2)))
    /\ UNCHANGED <<corevars, gui, scratch, archive, toolvars>>

HashCheck ==
    /\ cli.n < MaxCalls
    /\ \E expected \in { hash_bytes(c) : c \in Contents }, file \in FileArgs :
          cli' = Invoked("hash check", <<expected, file>>,
                         exit_hash_check(check_run(expected, file)))
    /\ UNCHANGED <<corevars, gui, scratch, archive, toolvars>>

DiffCreate ==
    /\ cli.n < MaxCalls
    /\ \E orig \in FileArgs, new \in FileArgs :
          cli' = Invoked("diff create", <<orig, new>>, exit_diff(diff_create_run(orig, new)))
    /\ UNCHANGED <<corevars, gui, scratch, archive, toolvars>>

DiffApply ==
    /\ cli.n < MaxCalls
    /\ \E orig \in FileArgs, diff \in DiffArgs :
          \E r \in diff_apply_run(orig, diff) :
              cli' = Invoked("diff apply", <<orig, diff>>, exit_diff(r))
    /\ UNCHANGED <<corevars, gui, scratch, archive, toolvars>>

InitCli ==
    /\ gui = NoGui
    /\ scratch = 0
    /\ cli = NoCli
    /\ archive = NoArchive
    /\ exe = NoExe
    /\ scan = NoScan
    /\ delta = NoDelta
    /\ check = NoCheck
    /\ manifest = Manifest(FALSE, << >>)
    /\ bundle = HandBundle(<< >>)
    /\ origin = [kind |-> "given", nd |-> EmptyDir]
    /\ fault = NoFault
    /\ target_dir = HomeTarget
    /\ target = EmptyDir
    /\ backup = NoBackup
    /\ pc = "idle"
    /\ call = NoCall
    /\ last = NoLast
    /\ prev = NoPrev
    /\ ncalls = 0

NextCli ==
    \/ HashCalculate
    \/ HashCompare
    \/ HashCheck
    \/ DiffCreate
    \/ DiffApply

SpecCli == InitCli /\ [][NextCli]_vars

---------------------------------------------------------------------------
(* The archive of a patch directory (graft-core archive.rs): a tar.gz of   *)
(* its members, unpacked into a scratch directory by PatchRunner::new.  A  *)
(* member is its path below the patch directory, component by component.   *)

MANIFEST_FILENAME == <<"manifest.json">>

DIFFS_DIR == "diffs"

FILES_DIR == "files"

ASSETS_DIR == "assets"

\* the members a patch directory may hold
BundleMembers ==
    { MANIFEST_FILENAME, <<DIFFS_DIR, "a.diff">>, <<FILES_DIR, "a">>, <<FILES_DIR, "sub", "b">>,
      <<FILES_DIR, "manifest.json">>, <<ASSETS_DIR, "icon.png">> }

RECURSIVE append_all(_, _)
append_all(dir, members) ==
    IF members = {} THEN << >>
    ELSE LET p == CHOOSE x \in members : TRUE IN
         <<[name |-> p, data |-> dir[p]]>> \o append_all(dir, members \ {p})

\* the regular files below <patch_dir>/<prefix>, at any depth, in read_dir order
add_directory_contents(dir, prefix) ==
    append_all(dir, { p \in DOMAIN dir : Len(p) > 1 /\ p[1] = prefix })

\* create_archive_bytes with the manifest appended after diffs/ and files/
create_archive_bytes_manifest_last(dir) ==
    IF ~Exists(dir, MANIFEST_FILENAME) THEN [ok |-> FALSE, entries |-> << >>]
    ELSE [ok |-> TRUE,
          entries |-> add_directory_contents(dir, DIFFS_DIR)
                         \o add_directory_contents(dir, FILES_DIR)
                         \o <<[name |-> MANIFEST_FILENAME, data |-> dir[MANIFEST_FILENAME]]>>]

\* create_archive_bytes: manifest.json, then diffs/, then files/
create_archive_bytes(dir) ==
    IF ~Exists(dir, MANIFEST_FILENAME) THEN [ok |-> FALSE, entries |-> << >>]
    ELSE [ok |-> TRUE,
          entries |-> <<[name |-> MANIFEST_FILENAME, data |-> dir[MANIFEST_FILENAME]]>>
                         \o add_directory_contents(dir, DIFFS_DIR)
                         \o add_directory_contents(dir, FILES_DIR)]

\* Archive::unpack into a fresh directory: every entry is written at its name
RECURSIVE unpack(_, _)
unpack(entries, dst) ==
    IF entries = << >> THEN dst
    ELSE unpack(Tail(entries), WriteFile(dst, Head(entries).name, Head(entries).data))

\* Path::ends_with(MANIFEST_FILENAME): the last component is manifest.json
is_manifest_member(name) == name # << >> /\ <<name[Len(name)]>> = MANIFEST_FILENAME

\* PatchValidator::validate: walk the members in stream order and stop at the
\* first one named manifest.json; `skipped` counts the members passed over
RECURSIVE validate_from(_, _)
validate_from(entries, skipped) ==
    IF entries = << >> THEN [kind |-> "ManifestNotFound", manifest |-> "-", skipped |-> skipped]
    ELSE IF is_manifest_member(Head(entries).name)
         THEN [kind |-> "Ok", manifest |-> Head(entries).data, skipped |-> skipped]
         ELSE validate_from(Tail(entries), skipped + 1)

validate(data) == validate_from(data, 0)

Pack ==
    /\ archive.step = "dir"
    /\ LET r == create_archive_bytes(archive.dir) IN
          archive' = [archive EXCEPT !.ok = r.ok, !.packed = r.entries,
                                     !.step = IF r.ok THEN "packed" ELSE "failed"]
    /\ UNCHANGED <<corevars, gui, scratch, cli, toolvars>>

Unpack ==
    /\ archive.step = "packed"
    /\ archive' = [archive EXCEPT !.unpacked = unpack(archive.packed, EmptyDir),
                                  !.step = "unpacked"]
    /\ UNCHANGED <<corevars, gui, scratch, cli, toolvars>>

InitArchive ==
    /\ gui = NoGui
    /\ scratch = 0
    /\ cli = NoCli
    /\ \E d \in Dirs(BundleMembers, {Old, New}) : archive = [NoArchive EXCEPT !.dir = d, !.step = "dir"]
    /\ exe = NoExe
    /\ scan = NoScan
    /\ delta = NoDelta
    /\ check = NoCheck
    /\ manifest = Manifest(FALSE, << >>)
    /\ bundle = HandBundle(<< >>)
    /\ origin = [kind |-> "given", nd |-> EmptyDir]
    /\ fault = NoFault
    /\ target_dir = HomeTarget
    /\ target = EmptyDir
    /\ backup = NoBackup
    /\ pc = "idle"
    /\ call = NoCall
    /\ last = NoLast
    /\ prev = NoPrev
    /\ ncalls = 0

\* the patcher validates the packed data (PatchValidator::validate)
ValidateArchive ==
    /\ archive.step = "packed"
    /\ archive.info = NoInfo
    /\ archive' = [archive EXCEPT !.info = validate(archive.packed)]
    /\ UNCHANGED <<corevars, gui, scratch, cli, toolvars>>

NextArchive ==
    \/ Pack
    \/ ValidateArchive
    \/ Unpack

SpecArchive == InitArchive /\ [][NextArchive]_vars

----------------------------------------------------------------------------
(* The self-appending executable: stub, archive, 8-byte length, magic.     *)
(* A byte is a number in 0..255 and a file is a sequence of bytes.         *)

\* b"GRAFTPCH"
MAGIC_MARKER == <<71, 82, 65, 70, 84, 80, 67, 72>>

\* u64::to_le_bytes, for the lengths below 2^32 that occur here: the low
\* four bytes carry the value and the high four are zero
to_le_bytes(n) ==
    [i \in 1..8 |-> CASE i = 1 -> n % 256
                      [] i = 2 -> (n \div 256) % 256
                      [] i = 3 -> (n \div 65536) % 256
                      [] i = 4 -> (n \div 16777216) % 256
                      [] OTHER -> 0]

\* u64::from_le_bytes; a value of 2^31 or more is represented by 2^31 - 1,
\* which is larger than the length of every file considered
from_le_bytes(b) ==
    IF b[5] = 0 /\ b[6] = 0 /\ b[7] = 0 /\ b[8] = 0 /\ b[4] < 128
    THEN b[1] + 256 * b[2] + 65536 * b[3] + 16777216 * b[4]
    ELSE 2147483647

\* create_executable_bytes with the trailer in the wrong order
create_executable_bytes_magic_first(stub_data, archive_data) ==
    stub_data \o archive_data \o MAGIC_MARKER \o to_le_bytes(Len(archive_data))

create_executable_bytes(stub_data, archive_data) ==
    stub_data \o archive_data \o to_le_bytes(Len(archive_data)) \o MAGIC_MARKER

\* one seek + read_exact: `count` bytes from offset `from` (0-based)
ReadAt(file, from, count) == SubSeq(file, from + 1, from + count)

\* read_appended_data without the test of the magic marker
read_appended_data_any_magic(file) ==
    LET file_len == Len(file) IN
    IF file_len < 16 THEN [kind |-> "NoAppendedData", data |-> << >>, reads |-> << >>]
    ELSE LET patch_size == from_le_bytes(ReadAt(file, file_len - 16, 8))
             rd == << <<file_len - 8, 8>>, <<file_len - 16, 8>> >> IN
         IF patch_size = 0 \/ patch_size > file_len - 16
         THEN [kind |-> "InvalidSize", data |-> << >>, reads |-> rd]
         ELSE LET patch_start == file_len - 16 - patch_size IN
              [kind |-> "Ok", data |-> ReadAt(file, patch_start, patch_size),
               reads |-> Append(rd, <<patch_start, patch_size>>)]

\* read_appended_data on the content of the executable; `reads` lists the
\* (offset, count) of every read_exact in order
read_appended_data(file) ==
    LET file_len == Len(file) IN
    IF file_len < 16 THEN [kind |-> "NoAppendedData", data |-> << >>, reads |-> << >>]
    ELSE LET magic == ReadAt(file, file_len - 8, 8) IN
         IF magic # MAGIC_MARKER
         THEN [kind |-> "NoAppendedData", data |-> << >>, reads |-> << <<file_len - 8, 8>> >>]
         ELSE LET patch_size == from_le_bytes(ReadAt(file, file_len - 16, 8))
                  rd == << <<file_len - 8, 8>>, <<file_len - 16, 8>> >> IN
              IF patch_size = 0 THEN [kind |-> "InvalidSize", data |-> << >>, reads |-> rd]
              ELSE IF patch_size > file_len - 16
                   THEN [kind |-> "InvalidSize", data |-> << >>, reads |-> rd]
                   ELSE LET patch_start == file_len - 16 - patch_size IN
                        [kind |-> "Ok", data |-> ReadAt(file, patch_start, patch_size),
                         reads |-> Append(rd, <<patch_start, patch_size>>)]

\* a payload longer than one length byte can count
LongData == [i \in 1..257 |-> i % 256]

\* stubs: empty, short, holding the marker, ending in a whole trailer, and a
\* stub that is itself a patcher with appended data
Stubs ==
    { << >>, <<0>>, <<1, 2>>, MAGIC_MARKER, to_le_bytes(1) \o MAGIC_MARKER,
      create_executable_bytes(<<9>>, <<5, 6>>) }

\* archive bytes: empty, short, looking like a marker or like a trailer, long
Archives ==
    { << >>, <<1>>, <<3, 4>>, <<0, 0, 0>>, MAGIC_MARKER, to_le_bytes(1) \o MAGIC_MARKER, LongData }

\* length fields a file on disk may hold
SizeFields ==
    { to_le_bytes(n) : n \in 0..4 } \cup
    { <<0, 1, 0, 0, 0, 0, 0, 0>>, <<0, 0, 0, 128, 0, 0, 0, 0>>, <<0, 0, 0, 0, 1, 0, 0, 0>>,
      <<255, 255, 255, 255, 255, 255, 255, 255>> }

\* the last eight bytes a file on disk may hold
Tails ==
    { MAGIC_MARKER, [MAGIC_MARKER EXCEPT ![8] = 73], [MAGIC_MARKER EXCEPT ![1] = 103],
      <<0, 0, 0, 0, 0, 0, 0, 0>> }

\* executables found on disk: any head, any length field, any tail, and
\* files too short to hold a trailer
GivenFiles ==
    { h \o sz \o t : h \in {<< >>, <<1>>, <<1, 2, 3>>}, sz \in SizeFields, t \in Tails } \cup
    { SubSeq(MAGIC_MARKER, 1, k) : k \in 0..8 } \cup
    { <<1, 0, 0, 0, 0, 0, 0>> \o MAGIC_MARKER }

\* `graft build` writes the patcher: the stub with the archive appended
Build ==
    /\ exe.step = "-"
    /\ \E stub \in Stubs, data \in Archives :
          exe' = [exe EXCEPT !.file = create_executable_bytes(stub, data),
                             !.stub = stub, !.data = data, !.step = "built"]
    /\ UNCHANGED <<corevars, gui, scratch, cli, archive, scan, delta, check>>

\* the patcher starts and reads its own file
ReadAppended ==
    /\ exe.step \in {"built", "given"}
    /\ exe' = [exe EXCEPT !.res = read_appended_data(exe.file), !.step = "read:" \o exe.step]
    /\ UNCHANGED <<corevars, gui, scratch, cli, archive, scan, delta, check>>

InitEnvelope ==
    /\ gui = NoGui
    /\ scratch = 0
    /\ cli = NoCli
    /\ archive = NoArchive
    /\ \/ exe = NoExe
       \/ \E f \in GivenFiles : exe = [NoExe EXCEPT !.file = f, !.step = "given"]
    /\ scan = NoScan
    /\ delta = NoDelta
    /\ check = NoCheck
    /\ manifest = Manifest(FALSE, << >>)
    /\ bundle = HandBundle(<< >>)
    /\ origin = [kind |-> "given", nd |-> EmptyDir]
    /\ fault = NoFault
    /\ target_dir = HomeTarget
    /\ target = EmptyDir
    /\ backup = NoBackup
    /\ pc = "idle"
    /\ call = NoCall
    /\ last = NoLast
    /\ prev = NoPrev
    /\ ncalls = 0

NextEnvelope ==
    \/ Build
    \/ ReadAppended

SpecEnvelope == InitEnvelope /\ [][NextEnvelope]_vars

----------------------------------------------------------------------------
(* The patch creator on directories as they are on disk: an entry of a     *)
(* directory is a regular file (readable or not) or a subdirectory, and a  *)
(* name may fail to be UTF-8.                                              *)

fb == <<"b">>
fraw == <<"b", "0xFF">>         \* a name with a byte that is not UTF-8

ScanNames == {fa, fb, fraw}

\* OsStr::to_str(): Some for a name that is valid UTF-8
to_str(name) == [some |-> \A i \in DOMAIN name : name[i] # "0xFF", str |-> name]

RegularFile(data, readable) == [kind |-> "file", data |-> data, readable |-> readable]

SubDirectory == [kind |-> "dir", data |-> Old, readable |-> TRUE]

DirEntries == { RegularFile(Old, TRUE), RegularFile(New, TRUE), RegularFile(Old, FALSE), SubDirectory }

\* the directories handed to the creator; read_dir fails on the last one
DiskDirs ==
    { [listable |-> TRUE, entries |-> e] : e \in Dirs(ScanNames, DirEntries) } \cup
    { [listable |-> FALSE, entries |-> EmptyDir] }

IoError == [ok |-> FALSE, files |-> {}]

\* list_files that fails on a name that is not UTF-8
list_files_strict(dir) ==
    IF ~dir.listable THEN IoError
    ELSE IF \E n \in DOMAIN dir.entries : dir.entries[n].kind = "file" /\ ~to_str(n).some
         THEN IoError
         ELSE [ok |-> TRUE, files |-> { n \in DOMAIN dir.entries : dir.entries[n].kind = "file" }]

\* list_files: the names of the regular files; `if let Some(name)` passes over
\* a name that to_str() cannot convert
list_files(dir) ==
    IF ~dir.listable THEN IoError
    ELSE [ok |-> TRUE,
          files |-> { n \in DOMAIN dir.entries :
                         dir.entries[n].kind = "file" /\ to_str(n).some }]

\* the content of the listed files, as fs::read returns it
ContentOf(dir, files) == [f \in files |-> dir.entries[f].data]

ScanFailed == [ok |-> FALSE, changes |-> << >>]

\* categorize_files on the two directories: list both, read every listed file
\* (any error returns), classify
scan_dirs(orig_dir, new_dir) ==
    LET lo == list_files(orig_dir)
        ln == list_files(new_dir) IN
    IF ~lo.ok \/ ~ln.ok THEN ScanFailed
    ELSE IF \/ \E f \in lo.files : ~orig_dir.entries[f].readable
            \/ \E f \in ln.files : ~new_dir.entries[f].readable
         THEN ScanFailed
         ELSE [ok |-> TRUE,
               changes |-> categorize_files(ContentOf(orig_dir, lo.files),
                                            ContentOf(new_dir, ln.files))]

has_diffs_always(changes) == TRUE

has_diffs(changes) == \E i \in DOMAIN changes : changes[i].change = "Diff"

has_new(changes) == \E i \in DOMAIN changes : changes[i].change = "New"

\* patch_create::run into a fresh output directory: nothing is created when
\* the scan fails
patch_create_output(orig_dir, new_dir, allow) ==
    LET s == scan_dirs(orig_dir, new_dir) IN
    IF ~s.ok THEN [NoOutput EXCEPT !.ok = FALSE]
    ELSE LET r == patch_create_run(ContentOf(orig_dir, list_files(orig_dir).files),
                                   ContentOf(new_dir, list_files(new_dir).files), allow) IN
         [ok |-> TRUE, exists |-> TRUE,
          diffs_dir |-> has_diffs(s.changes), files_dir |-> has_new(s.changes),
          manifest |-> r.manifest, written |-> TRUE,
          diffs |-> r.bundle.diffs, files |-> r.bundle.files]

\* categorize_files(orig_dir, new_dir)
ScanDirs ==
    /\ scan.step = "dirs"
    /\ scan' = [scan EXCEPT !.res = scan_dirs(scan.orig, scan.new), !.step = "scanned"]
    /\ UNCHANGED <<corevars, gui, scratch, cli, archive, exe, delta, check>>

\* graft patch create <orig> <new> <output>
CreatePatch ==
    /\ scan.step = "dirs"
    /\ \E allow \in BOOLEAN :
          scan' = [scan EXCEPT !.res = scan_dirs(scan.orig, scan.new),
                               !.out = patch_create_output(scan.orig, scan.new, allow),
                               !.step = "created"]
    /\ UNCHANGED <<corevars, gui, scratch, cli, archive, exe, delta, check>>

InitScan ==
    /\ gui = NoGui
    /\ scratch = 0
    /\ cli = NoCli
    /\ archive = NoArchive
    /\ exe = NoExe
    /\ \E o \in DiskDirs, n \in DiskDirs : scan = [NoScan EXCEPT !.orig = o, !.new = n, !.step = "dirs"]
    /\ delta = NoDelta
    /\ check = NoCheck
    /\ manifest = Manifest(FALSE, << >>)
    /\ bundle = HandBundle(<< >>)
    /\ origin = [kind |-> "given", nd |-> EmptyDir]
    /\ fault = NoFault
    /\ target_dir = HomeTarget
    /\ target = EmptyDir
    /\ backup = NoBackup
    /\ pc = "idle"
    /\ call = NoCall
    /\ last = NoLast
    /\ prev = NoPrev
    /\ ncalls = 0

NextScan ==
    \/ ScanDirs
    \/ CreatePatch

SpecScan == InitScan /\ [][NextScan]_vars

----------------------------------------------------------------------------
(* The binary delta on its own: create_diff, then apply_diff on a base     *)

\* the empty byte sequence
NoBytes == ""

Bytes == {NoBytes, Old, New, Junk}

CreateDelta ==
    /\ delta.step = "pair"
    /\ delta' = [delta EXCEPT !.diff = create_diff(delta.old, delta.new), !.step = "created"]
    /\ UNCHANGED <<corevars, gui, scratch, cli, archive, exe, scan, check>>

ApplyDelta ==
    /\ delta.step = "created"
    /\ \E base \in Bytes :
          \E r \in apply_diff(base, delta.diff) :
              delta' = [delta EXCEPT !.base = base, !.res = r, !.step = "applied"]
    /\ UNCHANGED <<corevars, gui, scratch, cli, archive, exe, scan, check>>

InitDelta ==
    /\ gui = NoGui
    /\ scratch = 0
    /\ cli = NoCli
    /\ archive = NoArchive
    /\ exe = NoExe
    /\ scan = NoScan
    /\ \E o \in Bytes, n \in Bytes : delta = [NoDelta EXCEPT !.old = o, !.new = n, !.step = "pair"]
    /\ check = NoCheck
    /\ manifest = Manifest(FALSE, << >>)
    /\ bundle = HandBundle(<< >>)
    /\ origin = [kind |-> "given", nd |-> EmptyDir]
    /\ fault = NoFault
    /\ target_dir = HomeTarget
    /\ target = EmptyDir
    /\ backup = NoBackup
    /\ pc = "idle"
    /\ call = NoCall
    /\ last = NoLast
    /\ prev = NoPrev
    /\ ncalls = 0

NextDelta ==
    \/ CreateDelta
    \/ ApplyDelta

SpecDelta == InitDelta /\ [][NextDelta]_vars

----------------------------------------------------------------------------
(* The validation routines as calls on the directories: what they return   *)
(* and what they leave behind.                                             *)

\* a read that empties what it reads
fs_read_consuming(dir, f) == [found |-> Exists(dir, f), dir |-> RemoveFile(dir, f)]

\* Path::exists / fs::read of <dir>/<f>: the directory afterwards is the
\* directory before
fs_read(dir, f) == [found |-> Exists(dir, f), dir |-> dir]

\* the directory after the reads a routine makes for the entries
RECURSIVE after_reads(_, _)
after_reads(dir, entries) ==
    IF entries = << >> THEN dir
    ELSE after_reads(fs_read(dir, Head(entries).file).dir, Tail(entries))

\* validate_patch_dir on a bundle whose manifest was loaded: every Patch entry
\* has its diff and every Add entry its file
RECURSIVE validate_patch_dir(_, _)
validate_patch_dir(entries, b) ==
    IF entries = << >> THEN Ok
    ELSE LET e == Head(entries) IN
         IF e.op = "patch" /\ ~Exists(b.diffs, e.file) THEN Err("DiffNotFound", e.file)
         ELSE IF e.op = "add" /\ ~Exists(b.files, e.file) THEN Err("FileNotFound", e.file)
         ELSE validate_patch_dir(Tail(entries), b)

Bool(b) == [kind |-> IF b THEN "true" ELSE "false", file |-> << >>]

Checked(routine, res) ==
    [routine |-> routine, res |-> res, n |-> check.n + 1,
     pre |-> [target |-> target, backup |-> backup, bundle |-> bundle]]

ValidateBundle ==
    /\ check.n = 0
    /\ check' = Checked("validate_patch_dir", validate_patch_dir(manifest.entries, bundle))
    /\ bundle' = [diffs |-> after_reads(bundle.diffs, manifest.entries),
                  files |-> after_reads(bundle.files, manifest.entries)]
    /\ UNCHANGED <<manifest, origin, fault, target_dir, target, backup, pc, call, last, prev, ncalls>>
    /\ UNCHANGED <<gui, scratch, cli, archive, exe, scan, delta>>

ValidatePre ==
    /\ check.n = 0
    /\ check' = Checked("validate_entries", validate_entries(manifest.entries, target))
    /\ target' = after_reads(target, manifest.entries)
    /\ UNCHANGED <<manifest, bundle, origin, fault, target_dir, backup, pc, call, last, prev, ncalls>>
    /\ UNCHANGED <<gui, scratch, cli, archive, exe, scan, delta>>

ValidateBackup ==
    /\ check.n = 0
    /\ check' = Checked("validate_backup", validate_backup(manifest.entries, backup.files))
    /\ backup' = [backup EXCEPT !.files = after_reads(backup.files, manifest.entries)]
    /\ UNCHANGED <<manifest, bundle, origin, fault, target_dir, target, pc, call, last, prev, ncalls>>
    /\ UNCHANGED <<gui, scratch, cli, archive, exe, scan, delta>>

ValidatePost ==
    /\ check.n = 0
    /\ check' = Checked("validate_patched_entries", validate_patched_entries(manifest.entries, target))
    /\ target' = after_reads(target, manifest.entries)
    /\ UNCHANGED <<manifest, bundle, origin, fault, target_dir, backup, pc, call, last, prev, ncalls>>
    /\ UNCHANGED <<gui, scratch, cli, archive, exe, scan, delta>>

ValidateTarget ==
    /\ check.n = 0
    /\ check' = Checked("validate_target", validate_target(manifest, target_dir, target))
    /\ target' = IF validate_path_restrictions(manifest, target_dir) # Ok THEN target
                 ELSE after_reads(target, manifest.entries)
    /\ UNCHANGED <<manifest, bundle, origin, fault, target_dir, backup, pc, call, last, prev, ncalls>>
    /\ UNCHANGED <<gui, scratch, cli, archive, exe, scan, delta>>

IsPatched ==
    /\ check.n = 0
    /\ check' = Checked("is_patched", Bool(is_patched(manifest, target)))
    /\ target' = after_reads(target, manifest.entries)
    /\ UNCHANGED <<manifest, bundle, origin, fault, target_dir, backup, pc, call, last, prev, ncalls>>
    /\ UNCHANGED <<gui, scratch, cli, archive, exe, scan, delta>>

\* has_backup only asks whether <target>/.patch-backup exists
HasBackup ==
    /\ check.n = 0
    /\ check' = Checked("has_backup", Bool(has_backup(backup)))
    /\ UNCHANGED <<corevars, gui, scratch, cli, archive, exe, scan, delta>>

InitValidate ==
    /\ gui = NoGui
    /\ scratch = 0
    /\ cli = NoCli
    /\ archive = NoArchive
    /\ exe = NoExe
    /\ scan = NoScan
    /\ delta = NoDelta
    /\ check = NoCheck
    /\ \E entries \in SeqsUpTo(HandEntries, MaxEntries), allow \in BOOLEAN :
          /\ manifest = Manifest(allow, entries)
          /\ bundle \in {HandBundle(entries), HandBundle(<< >>)}
    /\ origin = [kind |-> "given", nd |-> EmptyDir]
    /\ fault = NoFault
    /\ target_dir \in {HomeTarget, UsrTarget}
    /\ target \in Dirs(Files, {Old, New, Junk})
    /\ backup \in {NoBackup} \cup { [exists |-> TRUE, files |-> d] : d \in Dirs(Files, {Old, Junk}) }
    /\ pc = "idle"
    /\ call = NoCall
    /\ last = NoLast
    /\ prev = NoPrev
    /\ ncalls = 0

NextValidate ==
    \/ ValidateBundle
    \/ ValidatePre
    \/ ValidateBackup
    \/ ValidatePost
    \/ ValidateTarget
    \/ IsPatched
    \/ HasBackup

SpecValidate == InitValidate /\ [][NextValidate]_vars

---------------------------------------------------------------------------
(* Vocabulary of the properties                                            *)

Entries == manifest.entries

ApplyReturned == pc = "idle" /\ last.op = "apply"

RollbackReturned == pc = "idle" /\ last.op = "rollback"

\* the pre-condition of an entry fails in the directory
PreFails(e, tgt) ==
    \/ e.op = "patch" /\ (e.file \notin DOMAIN tgt \/ hash_bytes(tgt[e.file]) # e.original_hash)
    \/ e.op = "add" /\ e.file \in DOMAIN tgt
    \/ e.op = "delete" /\ e.file \in DOMAIN tgt /\ hash_bytes(tgt[e.file]) # e.original_hash

\* the post-condition of an entry holds in the directory
PostHolds(e, tgt) ==
    IF e.op = "delete" THEN e.file \notin DOMAIN tgt
    ELSE e.file \in DOMAIN tgt /\ hash_bytes(tgt[e.file]) = e.final_hash

DistinctFiles(entries) ==
    \A i, j \in 1..Len(entries) : entries[i].file = entries[j].file => i = j

HasDotDot(f) == \E i \in 1..(Len(f) - 1) : f[i] = "." /\ f[i + 1] = "."

PolicyAccepts ==
    \/ manifest.allow_restricted
    \/ \A i \in 1..Len(Entries) : check_path(Entries[i].file, target_dir) = NoViolation

---------------------------------------------------------------------------
(* C1. Atomicity on failure: when apply returns an error after the         *)
(* Applying phase has started and the internal rollback reported no error, *)
(* every file of the target, the one of the failing entry included, is as  *)
(* it was when apply was called.                                           *)

C1_AtomicOnFailure ==
    (ApplyReturned /\ last.res # Ok /\ "Applying" \in Range(last.phases) /\ last.rb = "Ok")
        => target = last.pre

---------------------------------------------------------------------------
(* C2. After apply returns Ok the post-condition of every entry holds in   *)
(* the target, for every manifest that validation accepted, whether or not *)
(* its entries name distinct files.                                        *)

C2_PostConditionAnyManifest ==
    (ApplyReturned /\ last.res = Ok)
        => \A i \in 1..Len(Entries) : PostHolds(Entries[i], target)

(* C2, amended: after apply returns Ok the post-condition of every entry   *)
(* holds in the target, for every manifest whose entries name distinct     *)
(* files.                                                                  *)

C2_PostConditionDistinctFiles ==
    (ApplyReturned /\ last.res = Ok /\ DistinctFiles(Entries))
        => \A i \in 1..Len(Entries) : PostHolds(Entries[i], target)

C2_Witness ==
    /\ ApplyReturned /\ last.res = Ok
    /\ Len(Entries) = 2 /\ DistinctFiles(Entries)
    /\ Entries[1].op = "patch" /\ Entries[2].op = "delete"
    /\ target # last.pre

---------------------------------------------------------------------------
(* C3. Round trip: the bundle created from (O, N), unaltered, applied to a *)
(* target equal to O, succeeds and leaves the target equal to N.           *)

FirstApplyOfCreated ==
    ApplyReturned /\ ncalls = 1 /\ origin.kind = "created" /\ fault = NoFault

---------------------------------------------------------------------------
(* C4. Pre-state mismatch: when the pre-condition of some entry fails in   *)
(* the target, apply returns ValidationFailed naming such a file, the      *)
(* target is untouched and the backup phase never starts.                  *)

SomePreFails == \E i \in 1..Len(Entries) : PreFails(Entries[i], last.pre)

Refused(kind) ==
    /\ last.res.kind = kind
    /\ target = last.pre
    /\ backup = last.preBackup
    /\ "BackingUp" \notin Range(last.phases)

FirstPreFailure ==
    LET i == CHOOSE k \in 1..Len(Entries) :
                 /\ PreFails(Entries[k], last.pre)
                 /\ \A j \in 1..(k - 1) : ~PreFails(Entries[j], last.pre)
    IN  Entries[i].file

C4_MismatchRefused ==
    (ApplyReturned /\ SomePreFails)
        => (Refused("ValidationFailed") /\ last.res.file = FirstPreFailure)

(* C4, amended: the same, when the path-restriction check has passed       *)
(* (otherwise apply returns RestrictedPaths before it looks at the target).*)

C4_MismatchRefusedAfterPolicy ==
    (ApplyReturned /\ SomePreFails /\ PolicyAccepts)
        => (Refused("ValidationFailed") /\ last.res.file = FirstPreFailure)

C4_Witness ==
    /\ ApplyReturned /\ SomePreFails /\ PolicyAccepts
    /\ Len(Entries) = 2 /\ ~PreFails(Entries[1], last.pre)
    /\ last.res = Err("ValidationFailed", Entries[2].file)
    /\ target # EmptyDir

---------------------------------------------------------------------------
(* C5. The policy is consulted exactly once per apply, before any change   *)
(* to the file system: a manifest with allow_restricted = false and a      *)
(* violating entry makes apply return RestrictedPaths with the target and  *)
(* the backup directory untouched, at either entry point.                  *)

C5_PolicyOnceAndFirst ==
    /\ pc \in {"BackingUp", "Applying", "RollingBack"} => call.checks = 1
    /\ ApplyReturned => last.checks = 1
    /\ (ApplyReturned /\ ~PolicyAccepts)
          => (Refused("RestrictedPaths") /\ last.phases = <<"Validating">>)

C5_Witness ==
    /\ ApplyReturned /\ ~PolicyAccepts
    /\ last.res.kind = "RestrictedPaths"
    /\ last.ep = "cli"
    /\ target # EmptyDir /\ Len(Entries) = 2

---------------------------------------------------------------------------
(* C6. Path traversal: with allow_restricted = false, a manifest with an   *)
(* entry whose file contains ".." is rejected, and check_manifest reports  *)
(* a PathTraversal violation for that entry, whatever the kind of the      *)
(* entry and whatever else the path contains.                              *)

Reports(violations, kind, f) ==
    \E j \in 1..Len(violations) : violations[j] = [kind |-> kind, path |-> f]

C6_TraversalRejected ==
    (ncalls = MaxCalls /\ ~manifest.allow_restricted
        /\ \E i \in 1..Len(Entries) : HasDotDot(Entries[i].file))
        => /\ ApplyReturned
           /\ last.res.kind = "RestrictedPaths"
           /\ \A i \in 1..Len(Entries) :
                  HasDotDot(Entries[i].file)
                      => Reports(last.violations, "PathTraversal", Entries[i].file)

C6_Witness ==
    /\ ApplyReturned /\ ~manifest.allow_restricted
    /\ Len(Entries) = 2
    /\ Entries[2].op = "delete"
    /\ HasDotDot(Entries[2].file)
    /\ Entries[2].file[1] = "a"
    /\ Len(last.violations) = 1

---------------------------------------------------------------------------
(* C7. With allow_restricted = true the policy is bypassed: check_manifest *)
(* reports nothing for any entries, apply never returns RestrictedPaths,   *)
(* and the outcome of the Validating phase is that of validate_pre alone.  *)

C7_AllowRestrictedBypasses ==
    (ncalls = MaxCalls /\ manifest.allow_restricted)
        => IF \E i \in 1..Len(Entries) : PreFails(Entries[i], target)
           THEN ApplyReturned /\ last.violations = << >>
                    /\ last.res.kind = "ValidationFailed"
           ELSE pc = "BackingUp" /\ call.violations = << >>

C7_Witness ==
    /\ pc = "BackingUp" /\ manifest.allow_restricted
    /\ check_path_traversal(Entries[1].file) # NoViolation
    /\ target_dir = UsrTarget
    /\ Len(Entries) = 2

---------------------------------------------------------------------------
(* C8. Rollback undoes apply: after a successful apply of a non-empty      *)
(* manifest, a rollback on the same target succeeds and the target has its *)
(* pre-apply content again.                                                *)

RollbackAfterApply ==
    /\ RollbackReturned
    /\ prev.op = "apply" /\ prev.res = Ok
    /\ Entries # << >>

C8_RollbackUndoesApply ==
    RollbackAfterApply => (last.res = Ok /\ target = prev.pre)

---------------------------------------------------------------------------
(* C9. Rollback with force = false requires the post-patch state: when the *)
(* post-condition of some entry fails in the target, rollback returns an   *)
(* error, reports TargetModified and changes neither the target nor the    *)
(* backup.                                                                 *)

SomePostFails == \E i \in 1..Len(Entries) : ~PostHolds(Entries[i], last.pre)

RefusedAsModified ==
    /\ last.res # Ok
    /\ last.ev = "TargetModified"
    /\ target = last.pre
    /\ backup = last.preBackup

C9_UnforcedNeedsPostState ==
    (RollbackReturned /\ ~last.force /\ SomePostFails) => RefusedAsModified

(* C9, amended: the same when the backup directory exists (without it      *)
(* rollback reports RollbackFailed before it looks at the target); with    *)
(* force = true the check is skipped: TargetModified is never reported and *)
(* a rollback over an intact backup goes ahead whatever the target holds.  *)

BackupIntact(bk) ==
    /\ bk.exists
    /\ \A i \in 1..Len(Entries) :
         LET e == Entries[i] IN
         /\ e.op = "patch"
               => (e.file \in DOMAIN bk.files /\ hash_bytes(bk.files[e.file]) = e.original_hash)
         /\ (e.op = "delete" /\ e.file \in DOMAIN bk.files)
               => hash_bytes(bk.files[e.file]) = e.original_hash

C9_UnforcedNeedsPostStateGivenBackup ==
    /\ (RollbackReturned /\ ~last.force /\ SomePostFails /\ last.preBackup.exists)
          => RefusedAsModified
    /\ (RollbackReturned /\ last.force)
          => /\ last.ev # "TargetModified"
             /\ BackupIntact(last.preBackup) => last.res = Ok

C9_Witness ==
    /\ RollbackReturned /\ ~last.force /\ SomePostFails /\ last.preBackup.exists
    /\ BackupIntact(last.preBackup)
    /\ last.preBackup.files # EmptyDir
    /\ RefusedAsModified
    /\ prev.op = "rollback" /\ prev.force /\ prev.res = Ok

---------------------------------------------------------------------------
(* C10. Rollback is not repeatable: for any non-empty manifest, after a    *)
(* successful apply followed by a successful rollback(force = false), a    *)
(* further rollback(force = false) fails with TargetModified and leaves    *)
(* the target unchanged.                                                   *)

SecondRollback ==
    /\ RollbackReturned /\ ~last.force
    /\ prev.op = "rollback" /\ ~prev.force /\ prev.res = Ok
    /\ prev.before.op = "apply" /\ prev.before.res = Ok
    /\ Entries # << >>

C10_RollbackNotRepeatable ==
    SecondRollback => (last.res # Ok /\ last.ev = "TargetModified" /\ target = last.pre)

(* C10, amended: the same for a manifest that has a Patch entry, an Add    *)
(* entry or a Delete entry whose file is in the backup (a manifest of      *)
(* Delete entries for files that were already absent is undone by doing    *)
(* nothing, so its post-state still holds after the rollback).             *)

RollbackUndoesSomething ==
    \E i \in 1..Len(Entries) :
        \/ Entries[i].op \in {"patch", "add"}
        \/ Entries[i].file \in DOMAIN last.preBackup.files

C10_RollbackNotRepeatableWhenUndone ==
    (SecondRollback /\ RollbackUndoesSomething)
        => (last.res # Ok /\ last.ev = "TargetModified" /\ target = last.pre)

C10_Witness ==
    /\ SecondRollback /\ RollbackUndoesSomething
    /\ Len(Entries) = 2
    /\ Entries[1].op = "add" /\ Entries[2].op = "delete"
    /\ last.ev = "TargetModified"


---------------------------------------------------------------------------
(* C11. Rollback validates the backup first, with or without force: when   *)
(* the backup directory is missing, or a Patch entry's backup file is      *)
(* missing or does not hash to original_hash, or an existing Delete backup *)
(* does not hash to original_hash, rollback returns RollbackFailed and no  *)
(* file of the target is modified.                                         *)

PostStateHeld == \A i \in 1..Len(Entries) : PostHolds(Entries[i], last.pre)

---------------------------------------------------------------------------
(* C12. The backup directory is present after every successful apply and   *)
(* after every failed, rolled-back apply, and it holds a byte copy of the  *)
(* pre-apply content of every Patch file and of every Delete file that     *)
(* existed: once the backup phase has run, apply returns with the          *)
(* directory in place, whatever the outcome.                               *)

BackupPhaseRan == ApplyReturned /\ "BackingUp" \in Range(last.phases)

HoldsPreApplyCopies ==
    \A i \in 1..Len(Entries) :
        (Entries[i].op \in {"patch", "delete"} /\ Entries[i].file \in DOMAIN last.pre)
            => /\ Entries[i].file \in DOMAIN backup.files
               /\ backup.files[Entries[i].file] = last.pre[Entries[i].file]

C12_BackupPresentAfterApply ==
    (BackupPhaseRan /\ Entries # << >>) => (backup.exists /\ HoldsPreApplyCopies)

\* the part of C12 that the code keeps: the copies are there
C12_CopiesKept == BackupPhaseRan => HoldsPreApplyCopies


---------------------------------------------------------------------------
(* C15. Idempotence of absence: a Delete entry whose file is missing when  *)
(* apply is called passes validate_pre, contributes no backup, is a no-op  *)
(* in apply_entry (which returns Ok), and leaves the file absent after the *)
(* apply and after a later rollback.                                       *)

DeleteOfAbsent(e, pre) == e.op = "delete" /\ e.file \notin DOMAIN pre

\* the entry's turn in the Applying phase
AtEntry(i) == pc = "Applying" /\ call.idx = i /\ i <= Len(Entries)

NoBackupContribution(e, before) ==
    e.file \in DOMAIN backup.files
        => (e.file \in DOMAIN before.files /\ backup.files[e.file] = before.files[e.file])

AbsenceIdempotent(i) ==
    LET e == Entries[i] IN
    /\ (AtEntry(i) /\ DeleteOfAbsent(e, call.pre))
          => apply_entry(e, target, bundle, fault) = {Outcome(Ok, target)}
    /\ (ApplyReturned /\ DeleteOfAbsent(e, last.pre))
          => /\ validate_entry_pre(e, last.pre) = Ok
             /\ NoBackupContribution(e, last.preBackup)
             /\ last.res = Ok => e.file \notin DOMAIN target
    /\ (RollbackReturned /\ prev.op = "apply" /\ prev.res = Ok /\ DeleteOfAbsent(e, prev.pre))
          => e.file \notin DOMAIN target

C15_AbsenceIdempotent == \A i \in 1..Len(Entries) : AbsenceIdempotent(i)

(* C15, amended: the same for a Delete entry that is the only entry of the *)
(* manifest naming its file, on a target whose backup directory holds no   *)
(* copy of that file (another entry may create the file before the Delete  *)
(* runs or after it, and a rollback restores whatever copy an earlier      *)
(* apply left in the backup).                                              *)

OnlyEntryOfFile(i) == \A j \in 1..Len(Entries) : Entries[j].file = Entries[i].file => j = i

NoCopyIn(bk, i) == Entries[i].file \notin DOMAIN bk.files

C15_AbsenceIdempotentWhenAlone ==
    \A i \in 1..Len(Entries) :
        LET e == Entries[i] IN
        /\ (AtEntry(i) /\ DeleteOfAbsent(e, call.pre) /\ OnlyEntryOfFile(i))
              => apply_entry(e, target, bundle, fault) = {Outcome(Ok, target)}
        /\ (ApplyReturned /\ DeleteOfAbsent(e, last.pre))
              => /\ validate_entry_pre(e, last.pre) = Ok
                 /\ NoBackupContribution(e, last.preBackup)
                 /\ (last.res = Ok /\ OnlyEntryOfFile(i)) => e.file \notin DOMAIN target
        /\ (RollbackReturned /\ prev.op = "apply" /\ prev.res = Ok
              /\ DeleteOfAbsent(e, prev.pre) /\ OnlyEntryOfFile(i) /\ NoCopyIn(prev.preBackup, i))
              => e.file \notin DOMAIN target

C15_Witness ==
    /\ RollbackReturned /\ last.res = Ok
    /\ prev.op = "apply" /\ prev.res = Ok
    /\ Len(Entries) = 2
    /\ Entries[1].op = "patch"
    /\ DeleteOfAbsent(Entries[2], prev.pre) /\ OnlyEntryOfFile(2) /\ NoCopyIn(prev.preBackup, 2)
    /\ Entries[2].file \notin DOMAIN target


---------------------------------------------------------------------------
(* C13. The backup directory is destroyed only on the operator's request   *)
(* after a successful rollback: whenever delete_backup has removed a       *)
(* backup directory, the session that invoked it had run a rollback, and   *)
(* that rollback returned Ok.                                              *)

AfterSuccessfulRollback == gui.del.did = "rollback" /\ gui.del.res = Ok

C13_DeleteOnlyAfterRollback ==
    (gui.del.n > 0 /\ gui.del.had) => AfterSuccessfulRollback

\* the part of C13 that the code keeps: the patcher proper, window or headless
C13_DeleteOnlyAfterRollbackEmbedded ==
    (gui.del.n > 0 /\ gui.del.mode # "Demo") => AfterSuccessfulRollback


---------------------------------------------------------------------------
(* C14. A second apply on a target that already has a .patch-backup        *)
(* directory is refused: whatever the entry point, an apply that finds the *)
(* directory returns an error without modifying any file of the target or  *)
(* of the backup.                                                          *)

HeadlessApplyOverBackup == gui.hl.cmd = "apply" /\ gui.hl.preBackup.exists

---------------------------------------------------------------------------
(* C16. On RollbackFailed the user is warned: the window never stays in    *)
(* RollingBack after the rollback worker has finished.  When the worker's  *)
(* call of the runner has returned, the channel holds an event that takes  *)
(* the window out of RollingBack (TargetModified, Done or Error).          *)

EndsTheWait(ev) == ev \in {"TargetModified", "Done", "Error"}

C16_LeavesRollingBack ==
    (gui.state = "RollingBack" /\ gui.rx = "rollback" /\ WorkerFinished)
        => EndsTheWait(last.ev)

\* the part of C16 that the code keeps: a missing or invalid backup is reported
C16_InvalidBackupReported ==
    (gui.state = "RollingBack" /\ gui.rx = "rollback" /\ WorkerFinished
        /\ ~BackupIntact(last.preBackup))
        => EndsTheWait(last.ev)


---------------------------------------------------------------------------
(* C17. Manifest versioning: a manifest whose version is greater than 1 is *)
(* rejected by every reader, so no apply is carried out from it: no apply  *)
(* of such a manifest returns Ok with the target changed.                  *)

C17_HigherVersionNeverApplied ==
    (manifest.version > 1 /\ ApplyReturned /\ last.res = Ok) => target = last.pre


---------------------------------------------------------------------------
(* C18. The scratch unpack directory of PatchRunner::new lives only for    *)
(* the duration of the invocation: whenever no worker and no headless run  *)
(* is under way, no scratch directory exists, so repeated runs do not      *)
(* accumulate scratch directories.                                         *)

NoRunnerInUse == gui.rx = "none" /\ ~gui.runner /\ pc = "idle"

C18_ScratchReleased == NoRunnerInUse => scratch = 0


---------------------------------------------------------------------------
(* C19. Exit-code discipline of the CLI: a command exits 0 exactly on      *)
(* success, 1 exactly on a semantic mismatch (the compared or checked      *)
(* hashes differ), and 2 on any other error.                               *)

Unreadable(c) ==
    CASE c.cmd = "hash check" -> c.args[2] = Missing
      [] c.cmd = "diff apply" -> c.args[1] = Missing \/ c.args[2] = MissingDiff
      [] OTHER -> \E i \in 1..Len(c.args) : c.args[i] = Missing

\* the hashes that the command compares differ
HashesDiffer(c) ==
    /\ ~Unreadable(c)
    /\ \/ c.cmd = "hash compare" /\ hash_bytes(c.args[1]) # hash_bytes(c.args[2])
       \/ c.cmd = "hash check" /\ c.args[1] # hash_bytes(c.args[2])

\* the command cannot do its work
Fails(c) ==
    \/ Unreadable(c)
    \/ c.cmd = "diff apply" /\ c.args[2] = Corrupt
    \/ c.cmd = "diff apply" /\ c.args[2].base # c.args[1] /\ c.exit # 0

ExitOf(c) == IF Fails(c) THEN 2 ELSE IF HashesDiffer(c) THEN 1 ELSE 0

C19_ExitCodeDiscipline == cli.cmd # "-" => cli.exit = ExitOf(cli)

\* the part of C19 that the code keeps: every case but a differing `hash check`
C19_ExitCodeDisciplineButCheck ==
    (cli.cmd # "-" /\ ~(cli.cmd = "hash check" /\ HashesDiffer(cli))) => cli.exit = ExitOf(cli)


---------------------------------------------------------------------------
(* C20. Archive round trip: for any bundle directory, pack followed by     *)
(* unpack into a fresh directory reproduces the bundle file for file: the  *)
(* same members (manifest.json and everything under diffs/, files/ and     *)
(* assets/), each with the same content.                                   *)

C20_RoundTrip == archive.step = "unpacked" => archive.unpacked = archive.dir

\* the part of C20 that the code keeps: manifest.json, diffs/ and files/
Packed(dir) ==
    [p \in { q \in DOMAIN dir : q = MANIFEST_FILENAME \/ q[1] \in {DIFFS_DIR, FILES_DIR} }
        |-> dir[p]]

C20_RoundTripButAssets == archive.step = "unpacked" => archive.unpacked = Packed(archive.dir)


\* ---- C21 ----
\* C21: in every archive produced by pack, manifest.json is the first member,
\* so the streaming validator returns the bundle's own manifest and passes
\* over no diffs/ or files/ member on the way
C21_ManifestFirst ==
    /\ archive.step \in {"packed", "unpacked"} =>
          /\ archive.packed # << >>
          /\ archive.packed[1].name = MANIFEST_FILENAME
          /\ archive.packed[1].data = archive.dir[MANIFEST_FILENAME]
    /\ archive.info # NoInfo =>
          archive.info = [kind |-> "Ok", manifest |-> archive.dir[MANIFEST_FILENAME], skipped |-> 0]

\* a validated archive whose files/ holds another manifest.json with other content
C21_Witness ==
    /\ archive.info.kind = "Ok"
    /\ Exists(archive.dir, <<FILES_DIR, "manifest.json">>)
    /\ archive.dir[<<FILES_DIR, "manifest.json">>] # archive.dir[MANIFEST_FILENAME]
    /\ Exists(archive.dir, <<DIFFS_DIR, "a.diff">>)


\* ---- C22 ----
\* C22: for any stub and any non-empty archive, the file written as
\* stub, archive, 8-byte little-endian length, GRAFTPCH is read back by the
\* envelope reader as exactly the archive bytes
C22_EnvelopeRoundTrip ==
    (exe.step = "read:built" /\ exe.data # << >>) =>
        /\ exe.res.kind = "Ok"
        /\ exe.res.data = exe.data

\* a long archive behind a stub that itself ends in a valid trailer
C22_Witness ==
    /\ exe.step = "read:built"
    /\ exe.data = LongData
    /\ exe.stub = create_executable_bytes(<<9>>, <<5, 6>>)
    /\ exe.res.kind = "Ok"

\* ---- C23 ----
\* the trailer of a file: its last eight bytes and the length stored before them
HasMagic(f) == Len(f) >= 16 /\ SubSeq(f, Len(f) - 7, Len(f)) = MAGIC_MARKER

StoredLength(f) == from_le_bytes(SubSeq(f, Len(f) - 15, Len(f) - 8))

\* C23: a file shorter than 16 bytes or not ending in GRAFTPCH gives
\* NoAppendedData; a matching magic with stored length 0 or above
\* file_size - 16 gives InvalidSize; otherwise exactly `length` bytes ending
\* 16 bytes before the end are returned; no read leaves the file and no
\* offset is negative
C23_MalformedTrailerRejected ==
    exe.step \in {"read:built", "read:given"} =>
        LET f == exe.file
            n == Len(f) IN
        /\ ~HasMagic(f) => exe.res.kind = "NoAppendedData"
        /\ (HasMagic(f) /\ (StoredLength(f) = 0 \/ StoredLength(f) > n - 16)) =>
              exe.res.kind = "InvalidSize"
        /\ (HasMagic(f) /\ StoredLength(f) > 0 /\ StoredLength(f) <= n - 16) =>
              /\ exe.res.kind = "Ok"
              /\ Len(exe.res.data) = StoredLength(f)
              /\ exe.res.data = SubSeq(f, n - 16 - StoredLength(f) + 1, n - 16)
        /\ \A i \in DOMAIN exe.res.reads :
              /\ exe.res.reads[i][1] >= 0
              /\ exe.res.reads[i][1] + exe.res.reads[i][2] <= n

\* a file with the right magic whose stored length is one more than fits
C23_Witness ==
    /\ exe.step = "read:given"
    /\ HasMagic(exe.file)
    /\ StoredLength(exe.file) = Len(exe.file) - 15
    /\ exe.res.kind = "InvalidSize"

\* a file with a wrong magic and a length that would fit
C23_WitnessNoMagic ==
    /\ exe.step = "read:given"
    /\ Len(exe.file) >= 16
    /\ ~HasMagic(exe.file)
    /\ exe.res.kind = "NoAppendedData"


\* ---- C24 ----
\* the regular files of a directory on disk, whatever their names
RegularNames(dir) == { n \in DOMAIN dir.entries : dir.entries[n].kind = "file" }

Scanned == scan.step \in {"scanned", "created"} /\ scan.res.ok

ChangesOf(n) == { i \in DOMAIN scan.res.changes : scan.res.changes[i].file = n }

SortedByFile(s) == \A i, j \in DOMAIN s : i < j => PathLess(s[i].file, s[j].file)

\* the change the classification prescribes for name n, "none" for a name
\* with equal content on both sides
Expected(n) ==
    LET o == scan.orig.entries
        w == scan.new.entries
        inO == n \in RegularNames(scan.orig)
        inN == n \in RegularNames(scan.new) IN
    IF inO /\ inN
    THEN IF hash_bytes(o[n].data) # hash_bytes(w[n].data)
         THEN {DiffChange(n, hash_bytes(o[n].data), hash_bytes(w[n].data))}
         ELSE {}
    ELSE IF inN THEN {NewChange(n, hash_bytes(w[n].data))}
         ELSE IF inO THEN {OldChange(n, hash_bytes(o[n].data))} ELSE {}

ClassifiedAsExpected(names) ==
    \A n \in names :
        /\ Cardinality(ChangesOf(n)) = Cardinality(Expected(n))
        /\ \A i \in ChangesOf(n) : scan.res.changes[i] \in Expected(n)

\* C24: a scan returns, sorted by file name, exactly one change per regular
\* file name that is in only one directory or whose contents differ (Diff,
\* NewFile or OldFile accordingly) and none for a name with equal content
C24_ScanClassifies ==
    Scanned =>
        /\ SortedByFile(scan.res.changes)
        /\ ClassifiedAsExpected(ScanNames)
        /\ \A i \in DOMAIN scan.res.changes :
              scan.res.changes[i].change = "Diff" =>
                  scan.res.changes[i].original_hash # scan.res.changes[i].final_hash

\* the same on the names that are valid UTF-8
C24_ScanClassifiesUtf8Names ==
    Scanned =>
        /\ SortedByFile(scan.res.changes)
        /\ ClassifiedAsExpected({ n \in ScanNames : to_str(n).some })
        /\ \A i \in DOMAIN scan.res.changes :
              /\ to_str(scan.res.changes[i].file).some
              /\ scan.res.changes[i].change = "Diff" =>
                    scan.res.changes[i].original_hash # scan.res.changes[i].final_hash

\* ---- C25 ----
\* C25: a scan that returns a result has dropped no file: every regular file
\* of either directory was readable and has a UTF-8 name
C25_NoFileDropped ==
    Scanned =>
        \A n \in RegularNames(scan.orig) \cup RegularNames(scan.new) :
            /\ to_str(n).some
            /\ n \in RegularNames(scan.orig) => scan.orig.entries[n].readable
            /\ n \in RegularNames(scan.new) => scan.new.entries[n].readable

\* read errors do abort the scan: a directory that cannot be listed or a
\* listed file that cannot be read leaves no result and no output
C25_ReadErrorsAbort ==
    (/\ scan.step \in {"scanned", "created"}
     /\ \/ ~scan.orig.listable
        \/ ~scan.new.listable
        \/ \E n \in RegularNames(scan.orig) : to_str(n).some /\ ~scan.orig.entries[n].readable
        \/ \E n \in RegularNames(scan.new) : to_str(n).some /\ ~scan.new.entries[n].readable)
    => (~scan.res.ok /\ ~scan.out.exists /\ ~scan.out.written)

\* ---- C26 ----
\* a regular file with the same content in both directories
Unchanged(n) ==
    /\ n \in RegularNames(scan.orig) \cap RegularNames(scan.new)
    /\ scan.orig.entries[n].data = scan.new.entries[n].data

\* C26: in every manifest written by the patch creator the entries are
\* sorted ascending by file, no file name has two entries, and no entry
\* names a file that is unchanged between the two directories
C26_ManifestSortedAndMinimal ==
    (scan.step = "created" /\ scan.out.written) =>
        LET es == scan.out.manifest.entries IN
        /\ SortedByFile(es)
        /\ \A i, j \in DOMAIN es : es[i].file = es[j].file => i = j
        /\ \A i \in DOMAIN es : ~Unchanged(es[i].file)

\* a manifest whose Delete entry sorts before its Patch entry, although Diff
\* changes are collected first
C26_Witness ==
    /\ scan.step = "created"
    /\ scan.out.written
    /\ Len(scan.out.manifest.entries) = 2
    /\ scan.out.manifest.entries[1].op = "delete"
    /\ scan.out.manifest.entries[2].op = "patch"

\* a manifest written next to a file that did not change
C26_WitnessUnchanged ==
    /\ scan.step = "created"
    /\ scan.out.written
    /\ Len(scan.out.manifest.entries) = 1
    /\ \E n \in ScanNames : to_str(n).some /\ Unchanged(n)

\* ---- C29 ----
\* the two directories hold the same regular files with the same content
Identical ==
    /\ RegularNames(scan.orig) = RegularNames(scan.new)
    /\ \A n \in RegularNames(scan.orig) : scan.orig.entries[n].data = scan.new.entries[n].data

\* C29: the creator creates diffs/ iff the scan has a Diff change and files/
\* iff it has a NewFile change; for two identical or two empty directories
\* the bundle has neither and its manifest is empty
C29_SubdirsOnlyWhenNeeded ==
    scan.step = "created" =>
        /\ scan.out.diffs_dir <=>
              (scan.res.ok /\ \E i \in DOMAIN scan.res.changes : scan.res.changes[i].change = "Diff")
        /\ scan.out.files_dir <=>
              (scan.res.ok /\ \E i \in DOMAIN scan.res.changes : scan.res.changes[i].change = "New")
        /\ scan.out.diffs_dir <=> (DOMAIN scan.out.diffs # {})
        /\ scan.out.files_dir <=> (DOMAIN scan.out.files # {})
        /\ (scan.out.ok /\ Identical) =>
              (~scan.out.diffs_dir /\ ~scan.out.files_dir /\ scan.out.written
               /\ scan.out.manifest.entries = << >>)

\* a bundle with files/ and without diffs/
C29_Witness ==
    /\ scan.step = "created"
    /\ scan.out.ok
    /\ scan.out.files_dir
    /\ ~scan.out.diffs_dir
    /\ Len(scan.out.manifest.entries) = 2

\* a bundle of two identical, non-empty directories
C29_WitnessIdentical ==
    /\ scan.step = "created"
    /\ scan.out.ok
    /\ Identical
    /\ RegularNames(scan.orig) # {}


C27_WitnessIdentical ==
    /\ delta.step = "applied"
    /\ delta.base = delta.old
    /\ delta.old = delta.new
    /\ delta.res.ok


C28_WitnessBackup ==
    /\ check.routine = "validate_backup"
    /\ check.res = Ok
    /\ \E i \in DOMAIN manifest.entries : manifest.entries[i].op = "patch"


\* ---- C30 ----
\* the terminal state of the invocation that returned last
Terminal ==
    IF last.res = Ok THEN "SUCCESS"
    ELSE IF last.rb = "RollbackFailed" THEN "FATAL_FAIL" ELSE "FAIL"

PhaseOrder == <<"Validating", "BackingUp", "Applying", "RollingBack">>

IsPrefix(s, t) == Len(s) <= Len(t) /\ SubSeq(t, 1, Len(s)) = s

\* the errors of an entry in the Applying phase (a member of the bundle that is
\* missing when the entry is applied is reported as ValidationFailed)
ApplyingErrors == {"ApplyFailed", "VerificationFailed", "ValidationFailed"}

\* a copy into the backup fails for an entry of the manifest
BackupFailureDue(pre) ==
    \E i \in DOMAIN Entries :
        /\ Entries[i].op \in {"patch", "delete"}
        /\ Exists(pre, Entries[i].file)
        /\ BackupFails(Entries[i].file)

\* C30: an invocation of apply starts in Validating and runs Validating,
\* BackingUp, Applying in this order, each after the success of the one
\* before; a failure in Validating or BackingUp ends in FAIL without Applying
\* or RollingBack; RollingBack is entered only from a failure in Applying;
\* the invocation ends in SUCCESS, in FAIL with the original error, or in
\* FATAL_FAIL, the last only when the rollback itself failed
C30_ApplyStateMachine ==
    /\ pc = "BackingUp" => (call.phases = SubSeq(PhaseOrder, 1, 1) /\ target = call.pre)
    /\ pc = "Applying" =>
          /\ call.phases \in {SubSeq(PhaseOrder, 1, 2), SubSeq(PhaseOrder, 1, 3)}
          /\ call.err = Ok
          /\ ~BackupFailureDue(call.pre)
    /\ pc = "RollingBack" =>
          /\ call.phases = SubSeq(PhaseOrder, 1, 3)
          /\ call.err.kind \in ApplyingErrors
    /\ ApplyReturned =>
          /\ last.phases # << >>
          /\ IsPrefix(last.phases, PhaseOrder)
          /\ Len(last.phases) = 1 =>
                /\ Terminal = "FAIL"
                /\ last.res.kind \in {"RestrictedPaths", "ValidationFailed"}
                /\ target = last.pre
                /\ backup = last.preBackup
          /\ Len(last.phases) = 2 =>
                /\ Terminal = "FAIL"
                /\ last.res.kind = "BackupFailed"
                /\ target = last.pre
          /\ Len(last.phases) = 3 => Terminal = "SUCCESS"
          /\ Len(last.phases) = 4 =>
                /\ Terminal \in {"FAIL", "FATAL_FAIL"}
                /\ last.res.kind \in ApplyingErrors
                /\ last.rb \in {"Ok", "RollbackFailed"}
          /\ Terminal = "FATAL_FAIL" => (Len(last.phases) = 4 /\ last.rb = "RollbackFailed")
          /\ (BackupFailureDue(last.pre) /\ Len(last.phases) > 1) => Len(last.phases) = 2

\* an invocation that ended in FATAL_FAIL: an entry failed and the restore of
\* an entry applied before it failed too
C30_Witness ==
    /\ ApplyReturned
    /\ Terminal = "FATAL_FAIL"
    /\ last.phases = PhaseOrder

\* an invocation that ended in FAIL in the BackingUp phase
C30_WitnessBackupFailed ==
    /\ ApplyReturned
    /\ last.res.kind = "BackupFailed"
    /\ last.phases = SubSeq(PhaseOrder, 1, 2)

\* an invocation that ended in FAIL after a rollback that succeeded
C30_WitnessRolledBack ==
    /\ ApplyReturned
    /\ Terminal = "FAIL"
    /\ last.phases = PhaseOrder
    /\ last.rb = "Ok"



\* ---- C31 ----
\* the entries applied before the failing one, in the RollingBack step
AppliedSoFar == SubSeq(manifest.entries, 1, call.idx - 1)

NamedBy(entries, f) == \E i \in DOMAIN entries : entries[i].file = f

NamedOnce(entries, f) == Cardinality({ i \in DOMAIN entries : entries[i].file = f }) = 1

SameFile(d1, d2, f) ==
    /\ Exists(d1, f) = Exists(d2, f)
    /\ Exists(d1, f) => d1[f] = d2[f]

\* the inverse of entry e is visible in directory d
Undone(e, d) ==
    CASE e.op = "patch"  -> Exists(d, e.file) /\ d[e.file] = backup.files[e.file]
      [] e.op = "delete" -> Exists(backup.files, e.file) =>
                                Exists(d, e.file) /\ d[e.file] = backup.files[e.file]
      [] e.op = "add"    -> ~Exists(d, e.file)

\* C31: when an entry fails during Applying, apply_entries rolls back exactly
\* the entries applied so far (each of them is undone, no other file is
\* touched) and returns the original error of the failing entry; the caller
\* receives this error also when the rollback itself fails, the rollback
\* error being reported next to it and never in its place
C31_OriginalErrorSurvives ==
    [][ pc = "RollingBack" =>
          /\ last'.op = "apply"
          /\ last'.res.kind \in ApplyingErrors
          /\ last'.res.file = manifest.entries[call.idx].file
          /\ last'.rb \in {"Ok", "RollbackFailed"}
          /\ \A f \in Files : ~NamedBy(AppliedSoFar, f) => SameFile(target', target, f)
          /\ last'.rb = "Ok" =>
                \A i \in DOMAIN AppliedSoFar :
                    NamedOnce(AppliedSoFar, AppliedSoFar[i].file) => Undone(AppliedSoFar[i], target')
      ]_vars

\* an entry failed after another one was applied, and the rollback undid it
C31_Witness ==
    /\ last.op = "apply"
    /\ last.phases = PhaseOrder
    /\ last.rb = "Ok"
    /\ Len(manifest.entries) = 2
    /\ manifest.entries[1].op = "patch"
    /\ manifest.entries[1].file # manifest.entries[2].file
    /\ last.res = Err("ApplyFailed", manifest.entries[2].file)
    /\ target[manifest.entries[1].file] = Old

\* the rollback itself failed and the caller still holds the entry's error
C31_WitnessRollbackFailed ==
    /\ last.op = "apply"
    /\ last.phases = PhaseOrder
    /\ last.rb = "RollbackFailed"
    /\ last.res.kind \in ApplyingErrors



C32_WitnessOk ==
    /\ pc = "Applying"
    /\ Len(call.applied) = 1
    /\ call.applied[1].op = "patch"
    /\ PostHolds(call.applied[1], target)



\* ---- C33 ----
\* the copy of file f into the backup was attempted from directory pre and failed
CopyFailed(f, pre) ==
    /\ BackupFails(f)
    /\ Exists(pre, f)
    /\ \E i \in DOMAIN Entries : Entries[i].file = f /\ Entries[i].op \in {"patch", "delete"}

\* C33: if the copy of a target file into the backup fails, apply returns
\* BackupFailed naming that file, the Applying phase never starts, and every
\* file of the target directory outside .patch-backup is as it was before
\* the call (none created, modified or deleted)
C33_BackupFailureStopsApply ==
    /\ pc \in {"Applying", "RollingBack"} => \A f \in Files : ~CopyFailed(f, call.pre)
    /\ ApplyReturned =>
          /\ \A f \in Files :
                (CopyFailed(f, last.pre) /\ Len(last.phases) > 1) =>
                    last.res = Err("BackupFailed", f)
          /\ last.res.kind = "BackupFailed" =>
                /\ CopyFailed(last.res.file, last.pre)
                /\ last.phases = <<"Validating", "BackingUp">>
                /\ target = last.pre

\* the copy of the second entry's file failed after the first entry's copy was made
C33_Witness ==
    /\ ApplyReturned
    /\ Len(Entries) = 2
    /\ last.res = Err("BackupFailed", Entries[2].file)
    /\ Entries[1].op = "patch"
    /\ Entries[1].file # Entries[2].file
    /\ Exists(backup.files, Entries[1].file)
    /\ target = last.pre



\* ---- C34 ----
\* rollback was called on its own and has returned
InverseReturned == pc = "idle" /\ last.op = "rollback" /\ last.ep = "core"

\* the inverse of entry i fails at its turn (entries naming pairwise distinct files)
FailsAt(i, pre) ==
    LET e == Entries[i] IN
    CASE e.op = "patch"  -> RestoreFails(e.file) \/ ~Exists(backup.files, e.file)
      [] e.op = "delete" -> Exists(backup.files, e.file) /\ RestoreFails(e.file)
      [] e.op = "add"    -> Exists(pre, e.file) /\ RestoreFails(e.file)

\* the index of the first failing inverse, Len + 1 when none fails
FirstFailing(pre) ==
    IF \E i \in DOMAIN Entries : FailsAt(i, pre)
    THEN CHOOSE i \in DOMAIN Entries :
             FailsAt(i, pre) /\ \A j \in DOMAIN Entries : FailsAt(j, pre) => i <= j
    ELSE Len(Entries) + 1

\* C34: rollback(applied, ...) takes the entries in the order presented and
\* performs the inverse of each (Patch: the backup copy is restored over the
\* target; Delete: the file is restored if and only if a backup copy exists;
\* Add: the target file is removed if present); a file named by no entry is
\* not touched; it stops at the first failing operation with RollbackFailed
\* and leaves the files of the entries from there on as they were
C34_RollbackInverse ==
    InverseReturned =>
        /\ last.res = Ok \/ last.res.kind = "RollbackFailed"
        /\ \A f \in Files : ~NamedBy(Entries, f) => SameFile(target, last.pre, f)
        /\ last.res = Ok =>
              \A f \in Files : \A i \in DOMAIN Entries :
                  (Entries[i].file = f /\ \A j \in DOMAIN Entries : Entries[j].file = f => j <= i)
                      => Undone(Entries[i], target)
        /\ DistinctFiles(Entries) =>
              LET k == FirstFailing(last.pre) IN
                /\ (last.res = Ok) = (k > Len(Entries))
                /\ k <= Len(Entries) => last.res = Err("RollbackFailed", Entries[k].file)
                /\ \A i \in DOMAIN Entries :
                      /\ i < k => Undone(Entries[i], target)
                      /\ (i < k /\ Entries[i].op = "delete" /\ ~Exists(backup.files, Entries[i].file))
                            => SameFile(target, last.pre, Entries[i].file)
                      /\ i >= k => SameFile(target, last.pre, Entries[i].file)

\* the first inverse failed and the second entry's file was left patched
C34_Witness ==
    /\ InverseReturned
    /\ Len(Entries) = 2
    /\ DistinctFiles(Entries)
    /\ Entries[2].op = "patch"
    /\ last.res = Err("RollbackFailed", Entries[1].file)
    /\ Exists(backup.files, Entries[2].file)
    /\ Exists(target, Entries[2].file)
    /\ target[Entries[2].file] = New

\* a Patch, then an Add were undone: one file restored, the other removed
C34_WitnessUndone ==
    /\ InverseReturned
    /\ last.res = Ok
    /\ Len(Entries) = 2
    /\ Entries[1].op = "patch" /\ Entries[2].op = "add"
    /\ DistinctFiles(Entries)
    /\ last.pre = [f \in Files |-> New]
    /\ target = [f \in {Entries[1].file} |-> Old]



\* ---- C35 ----
\* every violation of one path: the result of each of the three checks
ViolationsOf(file, tdir) ==
    LET all == <<check_path_traversal(file), check_blocked_extension(file),
                 check_protected_path(file, tdir)>> IN
    SelectSeq(all, LAMBDA v : v # NoViolation)

RECURSIVE AllViolations(_, _)
AllViolations(entries, tdir) ==
    IF entries = << >> THEN << >>
    ELSE ViolationsOf(Head(entries).file, tdir) \o AllViolations(Tail(entries), tdir)

\* C35: for a manifest with allow_restricted = false, the list returned by
\* check_manifest holds every violation of every entry (traversal, blocked
\* extension and protected location alike), in manifest order
C35_EveryViolationListed ==
    (ApplyReturned /\ ~manifest.allow_restricted) =>
        last.violations = AllViolations(Entries, target_dir)

\* C35, as the code has it: one violation for each entry that has any (the
\* first its checks find), in manifest order; no violating entry is left out
C35_OneViolationPerEntry ==
    (ApplyReturned /\ ~manifest.allow_restricted) =>
        /\ Len(last.violations) =
              Cardinality({ i \in DOMAIN Entries : ViolationsOf(Entries[i].file, target_dir) # << >> })
        /\ \A i \in DOMAIN last.violations :
              \E j \in DOMAIN Entries :
                  /\ ViolationsOf(Entries[j].file, target_dir) # << >>
                  /\ last.violations[i] = Head(ViolationsOf(Entries[j].file, target_dir))
                  /\ Cardinality({ k \in 1..j : ViolationsOf(Entries[k].file, target_dir) # << >> }) = i



\* ---- C36 ----
\* a call of the runner has returned
RunnerReturned(op) == pc = "idle" /\ last.ep = "runner" /\ last.op = op

\* C36: every call of PatchRunner::apply or PatchRunner::rollback that
\* returns has emitted a terminal event as its last event: for apply, Done
\* if and only if it returns Ok and Error otherwise; for rollback, Done if
\* and only if it returns Ok and Error or TargetModified otherwise
C36_TerminalEventLast ==
    /\ RunnerReturned("apply") =>
          last.ev = (IF last.res = Ok THEN "Done" ELSE "Error")
    /\ RunnerReturned("rollback") =>
          IF last.res = Ok THEN last.ev = "Done" ELSE last.ev \in {"Error", "TargetModified"}

\* C36 for apply alone, and for the calls of rollback that end before the
\* restore loop or complete it
C36_TerminalEventUnlessRestoreFails ==
    /\ RunnerReturned("apply") =>
          last.ev = (IF last.res = Ok THEN "Done" ELSE "Error")
    /\ (RunnerReturned("rollback") /\ last.rb # "RollbackFailed") =>
          IF last.res = Ok THEN last.ev = "Done" ELSE last.ev \in {"Error", "TargetModified"}



\* ---- C37 ----
InApplying == gui.mode = "Embedded" /\ gui.state = "Applying"

\* the worker thread of start_apply has ended
ApplyWorkerEnded == gui.rx = "progress" /\ (gui.newerr \/ WorkerFinished)

\* C37: whenever the window (embedded mode) enters Applying and keeps
\* polling its progress channel, it eventually leaves Applying: to Success
\* if and only if the worker's PatchRunner::apply returned Ok, to Error
\* otherwise (a failed construction of the runner included); it never shows
\* Success for an apply that returned an error, and once the worker has
\* ended a terminal message is waiting, so that it does not stay in Applying
C37_ApplyingEnds ==
    /\ [](InApplying => gui.rx = "progress")
    /\ []((InApplying /\ ApplyWorkerEnded) => (gui.newerr \/ last.ev \in {"Done", "Error"}))
    /\ []((gui.mode = "Embedded" /\ gui.state = "Success") =>
              (last.op = "apply" /\ last.res = Ok))
    /\ [][ (InApplying /\ gui'.state # "Applying") =>
              /\ ApplyWorkerEnded
              /\ gui'.state = IF ~gui.newerr /\ last.op = "apply" /\ last.res = Ok
                              THEN "Success" ELSE "Error" ]_vars
    /\ (InApplying ~> ~InApplying)

\* the window showed Error after an apply that was rolled back
C37_Witness ==
    /\ gui.mode = "Embedded"
    /\ gui.state = "Error"
    /\ gui.did = "apply"
    /\ last.op = "apply"
    /\ last.res.kind = "ApplyFailed"

\* the window showed Success after an apply that returned Ok
C37_WitnessSuccess ==
    /\ gui.mode = "Embedded"
    /\ gui.state = "Success"
    /\ last.op = "apply"
    /\ last.res = Ok
    /\ Len(Entries) > 0

\* the window showed Error because the runner could not be constructed
C37_WitnessNoRunner ==
    /\ gui.mode = "Embedded"
    /\ gui.state = "Error"
    /\ new_fails
    /\ ncalls = 0



\* ---- C38 ----
\* the views that wait for a worker thread
WaitingViews == {"ValidatingFolder", "Applying", "RollingBack"}

WorkerChannels == {"validation", "progress", "rollback"}

\* the step spawns a worker thread: a new channel is installed
StartsWorker ==
    /\ gui.mode = "Embedded"
    /\ gui'.rx \in WorkerChannels
    /\ gui'.rx # gui.rx

\* C38: under the window at most one worker thread (folder validation,
\* apply or rollback) operates on the target and backup directories at any
\* time: a worker is started only from a view that is not waiting for one,
\* entered after the final message of the worker before was taken (no
\* channel is open and no call of the runner is in progress), and the views
\* ValidatingFolder, Applying and RollingBack start none
C38_OneWorker ==
    /\ [](gui.mode = "Embedded" => ((gui.state \in WaitingViews) <=> (gui.rx \in WorkerChannels)))
    /\ []((gui.mode \in {"Demo", "Embedded"} /\ pc # "idle") =>
              (gui.rx \in {"progress", "rollback"} /\ gui.runner /\ ncalls = gui.callno + 1))
    /\ [][ StartsWorker =>
              /\ gui.rx = "none"
              /\ pc = "idle"
              /\ gui.state \notin WaitingViews
              /\ gui'.state \in WaitingViews ]_vars

\* the third worker of a session (validation, apply, then rollback) is at work
C38_Witness ==
    /\ gui.mode = "Embedded"
    /\ gui.state = "RollingBack"
    /\ gui.runner
    /\ scratch = 3
    /\ last.op = "apply"
    /\ last.res = Ok



\* ---- C39 ----
\* the view has told the user that the target files were modified
ToldModified ==
    \/ gui.state = "AlreadyPatched" /\ gui.modified
    \/ gui.state = "RollbackWarning"

\* the step starts a rollback from the window
StartsRollback ==
    /\ gui.mode = "Embedded"
    /\ gui.state # "RollingBack"
    /\ gui'.state = "RollingBack"

\* C39: the window starts a rollback with force = true only from a view that
\* has told the user the target files were modified (AlreadyPatched with
\* modified = true, or RollbackWarning), on `Rollback Anyway`; every other
\* rollback it starts (from Success, or from AlreadyPatched with modified =
\* false) uses force = false; the worker passes this value to the runner
C39_ForceOnlyAfterWarning ==
    /\ [][ StartsRollback =>
              /\ gui.state \in {"Success", "AlreadyPatched", "RollbackWarning"}
              /\ gui'.force = ToldModified ]_vars
    /\ []((gui.mode = "Embedded" /\ gui.rx = "rollback" /\ WorkerFinished) =>
              (last.op = "rollback" /\ last.force = gui.force))

\* Rollback Anyway on the RollbackWarning view, after a rollback that found
\* the target modified
C39_Witness ==
    /\ gui.mode = "Embedded"
    /\ gui.state = "RollingBack"
    /\ gui.force
    /\ ~WorkerFinished
    /\ last.op = "rollback"
    /\ last.ev = "TargetModified"
    /\ ~last.force

\* a forced rollback from AlreadyPatched (modified) has been carried out
C39_WitnessForced ==
    /\ gui.mode = "Embedded"
    /\ gui.state = "RollbackComplete"
    /\ last.op = "rollback"
    /\ last.force
    /\ last.res = Ok



\* ---- C40 ----
\* every copy in .patch-backup of a file of a Patch or Delete entry hashes
\* to the entry's original_hash
BackupCopiesGood ==
    \A i \in DOMAIN Entries :
        (Entries[i].op \in {"patch", "delete"} /\ Exists(backup.files, Entries[i].file))
            => hash_bytes(backup.files[Entries[i].file]) = Entries[i].original_hash

C40_WitnessRetry ==
    /\ ApplyReturned
    /\ last.res.kind = "ValidationFailed"
    /\ prev.op = "apply"
    /\ prev.res.kind = "ApplyFailed"
    /\ DOMAIN backup.files # {}

====
